---- MODULE Spec2Model ----
(***************************************************************************)
(* Hardened secure boot for EFR32MG26: layered token verifier,             *)
(* anti-rollback store, boot sequencer and tamper monitor.                 *)
(*                                                                         *)
(* The repository holds two implementations side by side.  The first       *)
(* (secure_boot.c with execute_secure_boot, the version-triple OTP store,  *)
(* tamper_detection_start) is driven by example_config.c; the second       *)
(* (secure_boot.c with control_flow_check, the OTP counter, the ACMP/IADC  *)
(* interrupt handlers) is driven by src/main.c.  Both are modelled, each   *)
(* under its own specification.                                            *)
(*                                                                         *)
(* 32-bit words are pairs <<high half, low half>> of 16-bit numbers.       *)
(***************************************************************************)
EXTENDS Integers, Sequences, FiniteSets, TLC

VARIABLES
    \* ---- layered token verifier (boot_context_t, verify_layered_tokens)
    verification_tokens,        \* g_boot_context.verification_tokens[0..3]
    vt_pc,                      \* "idle" | "returned"
    vt_ret,                     \* value returned by verify_layered_tokens
    \* ---- anti-rollback store (secure_boot.c, anti_rollback part)
    g_anti_rollback_initialized,
    g_otp_version,              \* [major, minor, patch]
    g_otp_counters,             \* counter index -> value
    ar_op,                      \* last operation called on the store
    ar_arg,                     \* its argument (a version, or a counter index)
    ar_ret,                     \* its return value
    ar_prev,                    \* g_otp_version when it was called
    ar_prev_init,               \* g_anti_rollback_initialized when it was called
    \* ---- first boot sequence (example_config.c main, execute_secure_boot)
    b1_pc,                      \* position in main / execute_secure_boot
    b1_boot_status,             \* main: boot_status_t boot_status
    b1_results,                 \* execute_secure_boot: token/signature/rollback results
    g_boot_context,             \* g_boot_context.status, .boot_count
    g_tz_initialized,           \* trustzone.c (first implementation)
    g_puf_config,               \* puf.c: g_puf_initialized, enrollment_done
    g_attestation_report,       \* attestation.c statics
    b1_report,                  \* main: attestation_report_t report
    g_tamper_context,           \* tamper_detection.c statics
    g_tamper_config,            \* g_acmp_config, g_iadc_config
    b1_tamper,                  \* main: tamper_ctx, tamper_events
    \* ---- second boot sequence (src/main.c, secure_boot_init, tamper monitor)
    b2_pc,                      \* position in main / secure_boot_init
    b2_main,                    \* main: status, error printed, attestation_len
    g_control_flow_token,
    g_tamper_events,            \* set of event names (bits of the mask)
    g_tamper_monitoring_enabled,
    hw,                         \* ACMP, IADC, OTP, Secure Vault registers
    g_measurements,             \* attestation.c: stages recorded, in order
    b2_hist,                    \* history: stages passed, samples, IRQ events
    \* ---- verify_firmware_signature called on a header read from flash
    fs_header,                  \* firmware_header_t (magic, image_size, signature)
    fs_image,                   \* the image the header belongs to
    fs_ret,                     \* value returned, NoWord before the call
    \* ---- key fabric (puf.c); g_puf_config above holds the two flags
    g_puf_helper_data,          \* static uint8_t g_puf_helper_data[64]
    g_puf_key,                  \* static uint8_t g_puf_key[PUF_KEY_SIZE]
    reconstruction_count,       \* g_puf_config.reconstruction_count
    kf_stack,                   \* base_key / wrapping_key as the last call left them
    kf_call,                    \* last call: function, return value, output buffer
    kf_plain,                   \* caller: the plaintext key last wrapped, its size
    kf_wrapped,                 \* caller: wrapped_key_t
    kf_flip,                    \* the bit flipped in kf_wrapped, if any
    kf_reconstructed,           \* history: first key puf_reconstruct_key gave, calls
    \* ---- tamper detection (first implementation) on arbitrary samples
    tm_call,                    \* last call: function, samples read, context before
    \* ---- tamper responses: handle_tamper_event, execute_tamper_response
    tr_frames,                  \* tamper response activations, innermost last
    tr_hw,                      \* key storage, Secure Vault lock, AIRCR, core halted
    \* ---- attestation (attestation.c of both implementations)
    at_report,                  \* static attestation_report_t g_attestation_report
    at_initialized,             \* static bool g_attestation_initialized
    at_out,                     \* caller: the report filled in, its exports, the text buffer
    at_call,                    \* last call: function, arguments, return value
    \* ---- the OTP, TRNG and PUF drivers called on their own
    drv_call,                   \* last call: function, argument, return value, readiness
    \* ---- fault injection into verify_layered_tokens
    gf_glitched,                \* comparisons whose outcome was inverted in the last call
    \* ---- main's check_tamper_events call, statement by statement
    cte_frame,                  \* its local events, the g_tamper_events value it loaded
    \* ---- boot attempts of the first implementation across resets
    bc_history,                 \* boot_count of the context and the report, per attempt
    \* ---- the report writers called on buffers of any size
    ex_call,                    \* last call: function, buffer size, bytes stored, count
    \* ---- control_flow_check called on its own
    cf_call                     \* last call: arguments, return value, tamper response

vtVars == <<verification_tokens, vt_pc, vt_ret>>
arVars == <<g_anti_rollback_initialized, g_otp_version, g_otp_counters,
            ar_op, ar_arg, ar_ret, ar_prev, ar_prev_init>>
b1Vars == <<b1_pc, b1_boot_status, b1_results, g_boot_context, g_tz_initialized,
            g_puf_config, g_attestation_report, b1_report, g_tamper_context,
            g_tamper_config, b1_tamper>>

b2Vars == <<b2_pc, b2_main, g_control_flow_token, g_tamper_events,
            g_tamper_monitoring_enabled, hw, g_measurements, b2_hist>>

fsVars == <<fs_header, fs_image, fs_ret>>

\* The variables of the component models below the two boot sequences.
kfVars == <<g_puf_helper_data, g_puf_key, reconstruction_count, kf_stack, kf_call,
            kf_plain, kf_wrapped, kf_flip, kf_reconstructed>>

tmVars == <<tm_call>>
trVars == <<tr_frames, tr_hw>>
atVars == <<at_report, at_initialized, at_out, at_call>>
drvVars == <<drv_call>>
gfVars == <<gf_glitched>>
cteVars == <<cte_frame>>
bcVars == <<bc_history>>
exVars == <<ex_call>>
cfVars == <<cf_call>>
ext7Vars == <<exVars, cfVars>>
ext6Vars == <<bcVars, ext7Vars>>
ext5Vars == <<cteVars, ext6Vars>>
ext4Vars == <<gfVars, ext5Vars>>
ext3Vars == <<atVars, drvVars, ext4Vars>>
ext2Vars == <<tmVars, trVars, ext3Vars>>

extVars == <<fsVars, kfVars, ext2Vars>>

vars == <<vtVars, arVars, b1Vars, b2Vars, extVars>>

(***************************************************************************)
(* 32-bit words                                                            *)
(***************************************************************************)
W(hi, lo) == <<hi, lo>>

RECURSIVE Xor16(_, _, _)
Xor16(a, b, n) ==
    IF n = 0 THEN 0
    ELSE (IF (a % 2) # (b % 2) THEN 1 ELSE 0) + 2 * Xor16(a \div 2, b \div 2, n - 1)

RECURSIVE Or16(_, _, _)
Or16(a, b, n) ==
    IF n = 0 THEN 0
    ELSE (IF (a % 2) = 1 \/ (b % 2) = 1 THEN 1 ELSE 0) + 2 * Or16(a \div 2, b \div 2, n - 1)

Xor32(x, y) == <<Xor16(x[1], y[1], 16), Xor16(x[2], y[2], 16)>>
Or32(x, y)  == <<Or16(x[1], y[1], 16), Or16(x[2], y[2], 16)>>

(***************************************************************************)
(* secure_boot.h (first implementation)                                    *)
(***************************************************************************)
TOKEN_LAYER_1 == W(23100, 38625)          \* 0x5A3C96E1
TOKEN_LAYER_2 == W(42435, 26910)          \* 0xA5C3691E
TOKEN_LAYER_3 == W(15450, 7830)           \* 0x3C5A1E96
TOKEN_LAYER_4 == W(50010, 38430)          \* 0xC35A961E

TOKEN_STATE_INVALID   == W(0, 0)          \* 0x00000000
TOKEN_STATE_LAYER1_OK == W(13260, 13260)  \* 0x33CC33CC
TOKEN_STATE_LAYER2_OK == W(21930, 21930)  \* 0x55AA55AA
TOKEN_STATE_LAYER3_OK == W(3855, 61680)   \* 0x0F0FF0F0
TOKEN_STATE_LAYER4_OK == W(42405, 23130)  \* 0xA5A55A5A
TOKEN_STATE_ALL_VALID == W(57005, 48879)  \* 0xDEADBEEF

FIRMWARE_VERSION_MAJOR == 1
FIRMWARE_VERSION_MINOR == 0
FIRMWARE_VERSION_PATCH == 0

BOOT_STATUS_INIT      == W(4386, 13124)   \* 0x11223344
BOOT_STATUS_VERIFYING == W(21862, 30600)  \* 0x55667788
BOOT_STATUS_SUCCESS   == W(39338, 48076)  \* 0x99AABBCC
BOOT_STATUS_FAILURE   == W(57005, 57005)  \* 0xDEADDEAD

(***************************************************************************)
(* anti_rollback.h (first implementation)                                  *)
(***************************************************************************)
MAX_OTP_COUNTERS == 8

ROLLBACK_CHECK_PASS     == W(43605, 43605)  \* 0xAA55AA55
ROLLBACK_CHECK_FAIL     == W(21930, 21930)  \* 0x55AA55AA
ROLLBACK_VERSION_EQUAL  == W(13260, 13260)  \* 0x33CC33CC
ROLLBACK_VERSION_HIGHER == W(52275, 13260)  \* 0xCC3333CC

(***************************************************************************)
(* Bounds of the model                                                     *)
(***************************************************************************)
MaxVer     == 2     \* version components range over 0..MaxVer
MaxCounter == 2     \* an OTP counter is incremented at most this often

(***************************************************************************)
(* verify_layered_tokens                                                   *)
(***************************************************************************)
\* A value that is none of the four layer tokens, as in test_glitch_resistance.
CorruptWord == W(4660, 22136)               \* 0x12345678

TokenValues == {TOKEN_LAYER_1, TOKEN_LAYER_2, TOKEN_LAYER_3, TOKEN_LAYER_4,
                TOKEN_STATE_INVALID, CorruptWord}

\* Lines 59-110 of verify_layered_tokens, statement by statement: the four
\* layer comparisons and the two redundant checks between them.  `state` and
\* `verification_result` are the function's two volatile locals; `ok` is FALSE
\* when one of the early `return TOKEN_STATE_INVALID` statements was taken.
layer_checks(tokens) ==
    LET failed == [ok |-> FALSE, state |-> TOKEN_STATE_INVALID, vr |-> W(0, 0)]
        vr0 == W(0, 0) IN
    \* Layer 1
    IF tokens[1] # TOKEN_LAYER_1 THEN failed ELSE
    LET state1 == TOKEN_STATE_LAYER1_OK
        vr1    == Or32(vr0, W(0, 1)) IN
    \* redundant check
    IF state1 # TOKEN_STATE_LAYER1_OK THEN failed ELSE
    \* Layer 2
    IF tokens[2] # TOKEN_LAYER_2 THEN failed ELSE
    LET state2 == TOKEN_STATE_LAYER2_OK
        vr2    == Or32(vr1, W(0, 2)) IN
    \* redundant check with different comparison
    IF Xor32(state2, TOKEN_STATE_LAYER2_OK) # W(0, 0) /\ state2 # TOKEN_STATE_LAYER2_OK
    THEN failed ELSE
    \* Layer 3
    IF tokens[3] # TOKEN_LAYER_3 THEN failed ELSE
    LET state3 == TOKEN_STATE_LAYER3_OK
        vr3    == Or32(vr2, W(0, 4)) IN
    \* Layer 4
    IF tokens[4] # TOKEN_LAYER_4 THEN failed ELSE
    [ok |-> TRUE, state |-> TOKEN_STATE_LAYER4_OK, vr |-> Or32(vr3, W(0, 8))]

\* Mutant: the final check tests verification_result against 0x7, not 0xF.
verify_layered_tokens_mask7(tokens) ==
    LET r == layer_checks(tokens) IN
    IF ~r.ok THEN TOKEN_STATE_INVALID
    ELSE IF r.vr = W(0, 7) /\ r.state = TOKEN_STATE_LAYER4_OK
    THEN IF /\ tokens[1] = TOKEN_LAYER_1
            /\ tokens[2] = TOKEN_LAYER_2
            /\ tokens[3] = TOKEN_LAYER_3
            /\ tokens[4] = TOKEN_LAYER_4
         THEN TOKEN_STATE_ALL_VALID
         ELSE TOKEN_STATE_INVALID
    ELSE TOKEN_STATE_INVALID

\* verify_layered_tokens: the layer checks, then the final comprehensive check
\* (lines 112-125), which compares the tokens themselves once more.
verify_layered_tokens(tokens) ==
    LET r == layer_checks(tokens) IN
    IF ~r.ok THEN TOKEN_STATE_INVALID
    ELSE IF r.vr = W(0, 15) /\ r.state = TOKEN_STATE_LAYER4_OK
    THEN IF /\ tokens[1] = TOKEN_LAYER_1
            /\ tokens[2] = TOKEN_LAYER_2
            /\ tokens[3] = TOKEN_LAYER_3
            /\ tokens[4] = TOKEN_LAYER_4
         THEN TOKEN_STATE_ALL_VALID
         ELSE TOKEN_STATE_INVALID
    ELSE TOKEN_STATE_INVALID

NoWord == <<>>      \* "no value returned yet"

InitTokens ==
    /\ verification_tokens \in [1..4 -> TokenValues]
    /\ vt_pc = "idle"
    /\ vt_ret = NoWord

IdleTokens ==
    /\ verification_tokens = [i \in 1..4 |-> W(0, 0)]   \* memset(&g_boot_context, 0, ..)
    /\ vt_pc = "idle"
    /\ vt_ret = NoWord

\* secure_boot_init, lines 221-224: the context gets the four layer tokens.
SetLayerTokens ==
    /\ vt_pc = "idle"
    /\ verification_tokens' = [i \in 1..4 |->
          CASE i = 1 -> TOKEN_LAYER_1 [] i = 2 -> TOKEN_LAYER_2
            [] i = 3 -> TOKEN_LAYER_3 [] OTHER -> TOKEN_LAYER_4]
    /\ UNCHANGED <<vt_pc, vt_ret>>

\* A caller (or a fault) overwrites one token, as test_glitch_resistance does.
CorruptToken ==
    /\ vt_pc = "idle"
    /\ \E i \in 1..4, w \in TokenValues :
          verification_tokens' = [verification_tokens EXCEPT ![i] = w]
    /\ UNCHANGED <<vt_pc, vt_ret>>

CallVerifyLayeredTokens ==
    /\ vt_pc = "idle"
    /\ vt_ret' = verify_layered_tokens(verification_tokens)
    /\ vt_pc' = "returned"
    /\ UNCHANGED verification_tokens

\* The caller takes the result; the context may be verified again.
ReturnFromVerify ==
    /\ vt_pc = "returned"
    /\ vt_pc' = "idle"
    /\ vt_ret' = NoWord
    /\ UNCHANGED verification_tokens

(***************************************************************************)
(* Anti-rollback store: anti_rollback_init, read_otp_version,              *)
(* write_otp_version, check_version_rollback, increment_otp_counter        *)
(***************************************************************************)
Version == [major : 0..MaxVer, minor : 0..MaxVer, patch : 0..MaxVer]

\* A NULL version_t pointer.
NULL == [major |-> -1, minor |-> -1, patch |-> -1]

\* static version_t g_otp_version: zero-initialised storage.
ZeroVersion == [major |-> 0, minor |-> 0, patch |-> 0]

\* What anti_rollback_init reads "from OTP".
InitialOtpVersion ==
    [major |-> FIRMWARE_VERSION_MAJOR,
     minor |-> FIRMWARE_VERSION_MINOR,
     patch |-> FIRMWARE_VERSION_PATCH]

\* Counter indexes a caller passes: the first, the last, and one out of range.
CounterIndexes == {0, MAX_OTP_COUNTERS - 1, MAX_OTP_COUNTERS}

\* read_otp_version succeeds iff the store is initialised and the pointer is
\* not NULL; it then yields a copy of g_otp_version.
read_otp_version(initialized, version_ptr) ==
    initialized /\ version_ptr # NULL

\* Mutant: the major-version downgrade test is missing.
write_otp_version_no_major(initialized, current_version, version) ==
    IF ~initialized \/ version = NULL THEN FALSE
    ELSE IF version.major = current_version.major
            /\ version.minor < current_version.minor THEN FALSE
    ELSE IF version.major = current_version.major
            /\ version.minor = current_version.minor
            /\ version.patch <= current_version.patch THEN FALSE
    ELSE TRUE

\* Mutant: the minor-version test forgets to require equal major versions.
write_otp_version_minor_only(initialized, current_version, version) ==
    IF ~initialized \/ version = NULL THEN FALSE
    ELSE IF version.major < current_version.major THEN FALSE
    ELSE IF version.minor < current_version.minor THEN FALSE
    ELSE IF version.major = current_version.major
            /\ version.minor = current_version.minor
            /\ version.patch <= current_version.patch THEN FALSE
    ELSE TRUE

\* Mutant: the patch test is < instead of <=, so the same version is written.
write_otp_version_patch_lt(initialized, current_version, version) ==
    IF ~initialized \/ version = NULL THEN FALSE
    ELSE IF version.major < current_version.major THEN FALSE
    ELSE IF version.major = current_version.major
            /\ version.minor < current_version.minor THEN FALSE
    ELSE IF version.major = current_version.major
            /\ version.minor = current_version.minor
            /\ version.patch < current_version.patch THEN FALSE
    ELSE TRUE

\* write_otp_version: TRUE iff the write is accepted.
write_otp_version(initialized, current_version, version) ==
    IF ~initialized \/ version = NULL THEN FALSE
    ELSE IF ~read_otp_version(initialized, current_version) THEN FALSE
    ELSE IF version.major < current_version.major THEN FALSE
    ELSE IF version.major = current_version.major
            /\ version.minor < current_version.minor THEN FALSE
    ELSE IF version.major = current_version.major
            /\ version.minor = current_version.minor
            /\ version.patch <= current_version.patch THEN FALSE
    ELSE TRUE

\* Mutant: the minor versions are compared before the major versions.
check_version_rollback_minor_first(initialized, current_version, new_version) ==
    IF ~initialized \/ new_version = NULL THEN ROLLBACK_CHECK_FAIL
    ELSE IF new_version.minor > current_version.minor THEN ROLLBACK_VERSION_HIGHER
    ELSE IF new_version.minor < current_version.minor THEN ROLLBACK_CHECK_FAIL
    ELSE IF new_version.major > current_version.major THEN ROLLBACK_VERSION_HIGHER
    ELSE IF new_version.major < current_version.major THEN ROLLBACK_CHECK_FAIL
    ELSE IF new_version.patch > current_version.patch THEN ROLLBACK_VERSION_HIGHER
    ELSE IF new_version.patch < current_version.patch THEN ROLLBACK_CHECK_FAIL
    ELSE ROLLBACK_VERSION_EQUAL

check_version_rollback(initialized, current_version, new_version) ==
    IF ~initialized \/ new_version = NULL THEN ROLLBACK_CHECK_FAIL
    ELSE IF ~read_otp_version(initialized, current_version) THEN ROLLBACK_CHECK_FAIL
    ELSE IF new_version.major > current_version.major THEN ROLLBACK_VERSION_HIGHER
    ELSE IF new_version.major < current_version.major THEN ROLLBACK_CHECK_FAIL
    ELSE IF new_version.minor > current_version.minor THEN ROLLBACK_VERSION_HIGHER
    ELSE IF new_version.minor < current_version.minor THEN ROLLBACK_CHECK_FAIL
    ELSE IF new_version.patch > current_version.patch THEN ROLLBACK_VERSION_HIGHER
    ELSE IF new_version.patch < current_version.patch THEN ROLLBACK_CHECK_FAIL
    ELSE ROLLBACK_VERSION_EQUAL

InitRollback ==
    /\ g_anti_rollback_initialized = FALSE
    /\ g_otp_version = ZeroVersion
    /\ g_otp_counters = [i \in 0..(MAX_OTP_COUNTERS - 1) |-> 0]
    /\ ar_op = "none"
    /\ ar_arg = NULL
    /\ ar_ret = FALSE
    /\ ar_prev = ZeroVersion
    /\ ar_prev_init = FALSE

\* What anti_rollback_init leaves in the store's own variables.
anti_rollback_init_effect ==
    IF g_anti_rollback_initialized
    THEN UNCHANGED <<g_anti_rollback_initialized, g_otp_version, g_otp_counters>>
    ELSE /\ g_otp_counters' = [i \in 0..(MAX_OTP_COUNTERS - 1) |-> 0]
         /\ g_otp_version' = InitialOtpVersion
         /\ g_anti_rollback_initialized' = TRUE

AntiRollbackInit ==
    /\ anti_rollback_init_effect
    /\ ar_op' = "anti_rollback_init"
    /\ ar_arg' = NULL
    /\ ar_ret' = TRUE
    /\ ar_prev' = g_otp_version
    /\ ar_prev_init' = g_anti_rollback_initialized

WriteOtpVersion ==
    \E version \in Version \cup {NULL} :
       LET ok == write_otp_version(g_anti_rollback_initialized, g_otp_version, version) IN
       /\ g_otp_version' = IF ok THEN version ELSE g_otp_version
       /\ ar_op' = "write_otp_version"
       /\ ar_arg' = version
       /\ ar_ret' = ok
       /\ ar_prev' = g_otp_version
       /\ ar_prev_init' = g_anti_rollback_initialized
       /\ UNCHANGED <<g_anti_rollback_initialized, g_otp_counters>>

CheckVersionRollback ==
    \E new_version \in Version \cup {NULL} :
       /\ ar_op' = "check_version_rollback"
       /\ ar_arg' = new_version
       /\ ar_ret' = check_version_rollback(g_anti_rollback_initialized,
                                           g_otp_version, new_version)
       /\ ar_prev' = g_otp_version
       /\ ar_prev_init' = g_anti_rollback_initialized
       /\ UNCHANGED <<g_anti_rollback_initialized, g_otp_version, g_otp_counters>>

\* increment_otp_counter; the model stops incrementing at MaxCounter (the code
\* stops at 0xFFFFFFFF).
IncrementOtpCounter ==
    \E counter_index \in CounterIndexes :
       LET ok == /\ g_anti_rollback_initialized
                 /\ counter_index < MAX_OTP_COUNTERS
                 /\ g_otp_counters[counter_index] < MaxCounter IN
       /\ g_otp_counters' = IF ok
                            THEN [g_otp_counters EXCEPT ![counter_index] = @ + 1]
                            ELSE g_otp_counters
       /\ ar_op' = "increment_otp_counter"
       /\ ar_arg' = NULL
       /\ ar_ret' = ok
       /\ ar_prev' = g_otp_version
       /\ ar_prev_init' = g_anti_rollback_initialized
       /\ UNCHANGED <<g_anti_rollback_initialized, g_otp_version>>

(***************************************************************************)
(* First boot sequence: main of example_config.c and execute_secure_boot   *)
(***************************************************************************)
\* Unsigned 32-bit value of a small signed integer (the usual conversion).
ToU32(n) ==
    IF n >= 0 THEN W(n \div 65536, n % 65536) ELSE W(65535, 65536 + n)

\* Unsigned 32-bit "less than" on words.
ULess(x, y) == x[1] < y[1] \/ (x[1] = y[1] /\ x[2] < y[2])

\* tamper_detection.h (first implementation)
TAMPER_EVENT_NONE         == 0
TAMPER_EVENT_VOLTAGE_LOW  == 1
TAMPER_EVENT_VOLTAGE_HIGH == 2
TAMPER_EVENT_TEMP_LOW     == 4
TAMPER_EVENT_TEMP_HIGH    == 8
TAMPER_EVENT_GLITCH       == 16
TAMPER_EVENT_CLOCK_ANOMALY == 32

VOLTAGE_THRESHOLD_LOW_MV  == 2700
VOLTAGE_THRESHOLD_HIGH_MV == 3600
VOLTAGE_NOMINAL_MV        == 3300
TEMP_THRESHOLD_LOW_C      == 0 - 20
TEMP_THRESHOLD_HIGH_C     == 85
TEMP_NOMINAL_C            == 25

\* check_tamper_events: "> 200mV change"
GLITCH_DELTA_MV == 200

\* attestation.h (first implementation)
MAX_MEASUREMENT_COUNT == 16
MAX_EVENT_LOG_ENTRIES == 32

\* The header execute_secure_boot builds ("in production, read from flash").
fw_header ==
    [magic        |-> W(17997, 22352),     \* 0x464D5750
     version      |-> W(256, 0),           \* 0x01000000
     image_size   |-> W(1, 0),             \* 0x10000
     load_address |-> W(2048, 0),          \* 0x08000000
     entry_point  |-> W(2048, 1024)]       \* 0x08000400

\* verify_firmware_signature: header magic and size, then the state chain.
verify_firmware_signature(header) ==
    IF header.magic # W(17997, 22352) THEN TOKEN_STATE_INVALID
    ELSE IF header.image_size = W(0, 0) \/ ULess(W(16, 0), header.image_size)
         THEN TOKEN_STATE_INVALID
    ELSE LET s1 == TOKEN_STATE_LAYER1_OK
             s2 == IF s1 = TOKEN_STATE_LAYER1_OK THEN TOKEN_STATE_LAYER2_OK
                   ELSE TOKEN_STATE_INVALID
         IN IF s2 = TOKEN_STATE_LAYER2_OK THEN TOKEN_STATE_ALL_VALID
            ELSE TOKEN_STATE_INVALID

\* check_anti_rollback, lines 188-191: the packed word as a version_t.
unpack_version(new_version) ==
    [major |-> (new_version[1] \div 256) % 256,
     minor |-> new_version[1] % 256,
     patch |-> new_version[2]]

\* check_anti_rollback: the candidate passes only when check_version_rollback
\* answers PASS or HIGHER, twice.
check_anti_rollback(initialized, current_version, new_version) ==
    LET new_ver == unpack_version(new_version)
        status  == check_version_rollback(initialized, current_version, new_ver)
    IN IF status = ROLLBACK_CHECK_PASS \/ status = ROLLBACK_VERSION_HIGHER
       THEN LET again == check_version_rollback(initialized, current_version, new_ver)
            IN IF again = ROLLBACK_CHECK_PASS \/ again = ROLLBACK_VERSION_HIGHER
               THEN TOKEN_STATE_ALL_VALID
               ELSE TOKEN_STATE_INVALID
       ELSE TOKEN_STATE_INVALID

\* check_tamper_events with the low-voltage test taken as "not above".
check_tamper_events_v1_le(ctx, cfg, current_voltage, current_temp) ==
    LET vlow   == current_voltage <= cfg.low_threshold
        vhigh  == current_voltage > cfg.high_threshold
        delta  == current_voltage - ctx.last_voltage_mv
        glitch == /\ current_voltage # ctx.last_voltage_mv
                  /\ (delta > GLITCH_DELTA_MV \/ delta < 0 - GLITCH_DELTA_MV)
        \* int32_t current_temp against uint32_t thresholds: unsigned compare
        tlow   == ULess(ToU32(current_temp), cfg.temp_low_threshold)
        thigh  == ULess(cfg.temp_high_threshold, ToU32(current_temp))
        B(c, e) == IF c THEN e ELSE 0
        N(c)    == IF c THEN 1 ELSE 0
        events == B(vlow, TAMPER_EVENT_VOLTAGE_LOW) + B(vhigh, TAMPER_EVENT_VOLTAGE_HIGH)
                  + B(glitch, TAMPER_EVENT_GLITCH) + B(tlow, TAMPER_EVENT_TEMP_LOW)
                  + B(thigh, TAMPER_EVENT_TEMP_HIGH)
    IN [events |-> events,
        ctx    |-> [event_flags     |-> Or16(ctx.event_flags, events, 16),
                    event_count     |-> ctx.event_count + N(vlow) + N(vhigh)
                                        + N(glitch) + N(tlow) + N(thigh),
                    last_voltage_mv |-> current_voltage,
                    last_temp_c     |-> current_temp]]

\* check_tamper_events(context) of the first implementation, on the samples
\* current_voltage and current_temp: the events found and the new context.
check_tamper_events_v1(ctx, cfg, current_voltage, current_temp) ==
    LET vlow   == current_voltage < cfg.low_threshold
        vhigh  == current_voltage > cfg.high_threshold
        delta  == current_voltage - ctx.last_voltage_mv
        glitch == /\ current_voltage # ctx.last_voltage_mv
                  /\ (delta > GLITCH_DELTA_MV \/ delta < 0 - GLITCH_DELTA_MV)
        \* int32_t current_temp against uint32_t thresholds: unsigned compare
        tlow   == ULess(ToU32(current_temp), cfg.temp_low_threshold)
        thigh  == ULess(cfg.temp_high_threshold, ToU32(current_temp))
        B(c, e) == IF c THEN e ELSE 0
        N(c)    == IF c THEN 1 ELSE 0
        events == B(vlow, TAMPER_EVENT_VOLTAGE_LOW) + B(vhigh, TAMPER_EVENT_VOLTAGE_HIGH)
                  + B(glitch, TAMPER_EVENT_GLITCH) + B(tlow, TAMPER_EVENT_TEMP_LOW)
                  + B(thigh, TAMPER_EVENT_TEMP_HIGH)
    IN [events |-> events,
        ctx    |-> [event_flags     |-> Or16(ctx.event_flags, events, 16),
                    event_count     |-> ctx.event_count + N(vlow) + N(vhigh)
                                        + N(glitch) + N(tlow) + N(thigh),
                    last_voltage_mv |-> current_voltage,
                    last_temp_c     |-> current_temp]]

\* execute_tamper_response returns unless the events hold GLITCH or
\* CLOCK_ANOMALY, for which it spins in while (1).
execute_tamper_response_halts(event_flags) ==
    (event_flags \div TAMPER_EVENT_GLITCH) % 4 # 0

ZeroTamperContext ==
    [event_flags |-> 0, event_count |-> 0, last_voltage_mv |-> 0, last_temp_c |-> 0]

NoResults ==
    [token_result |-> NoWord, signature_result |-> NoWord, rollback_result |-> NoWord]

\* The statics and locals of the first boot sequence at program start.
InitBoot1State ==
    /\ b1_pc = "start"
    /\ b1_boot_status = NoWord
    /\ b1_results = NoResults
    /\ g_boot_context = [status |-> W(0, 0), boot_count |-> 0]
    /\ g_tz_initialized = FALSE
    /\ g_puf_config = [initialized |-> FALSE, enrollment_done |-> 0]
    /\ g_attestation_report = [initialized |-> FALSE, boot_count |-> 0,
                               measurement_count |-> 0, event_count |-> 0,
                               last_event_data |-> NoWord]
    /\ b1_report = [generated |-> FALSE, signed |-> FALSE, json_len |-> 0]
    /\ g_tamper_context = ZeroTamperContext
    /\ g_tamper_config = [low_threshold |-> 0, high_threshold |-> 0,
                          temp_low_threshold |-> W(0, 0),
                          temp_high_threshold |-> W(0, 0)]
    /\ b1_tamper = [ctx |-> ZeroTamperContext, events |-> TAMPER_EVENT_NONE]

\* production_init / test programs: the store is set up before the boot runs.
ProvisionAntiRollbackInit ==
    /\ b1_pc = "start"
    /\ AntiRollbackInit
    /\ UNCHANGED <<vtVars, b1Vars, b2Vars, extVars>>

ProvisionWriteOtpVersion ==
    /\ b1_pc = "start"
    /\ WriteOtpVersion
    /\ UNCHANGED <<vtVars, b1Vars, b2Vars, extVars>>

\* main: trustzone_init(&example_tz_config); a failure spins in while (1).
Main1_TrustzoneInit ==
    /\ b1_pc = "start"
    /\ IF g_tz_initialized
       THEN b1_pc' = "halt" /\ UNCHANGED g_tz_initialized
       ELSE b1_pc' = "puf_init" /\ g_tz_initialized' = TRUE
    /\ UNCHANGED <<vtVars, arVars, b2Vars, extVars, b1_boot_status, b1_results, g_boot_context,
                   g_puf_config, g_attestation_report, b1_report,
                   g_tamper_context, g_tamper_config, b1_tamper>>

\* puf_init: sets the configuration up once.
puf_init_effect ==
    g_puf_config' = IF g_puf_config.initialized THEN g_puf_config
                    ELSE [initialized |-> TRUE, enrollment_done |-> 0]

Main1_PufInit ==
    /\ b1_pc = "puf_init"
    /\ puf_init_effect
    /\ b1_pc' = "puf_enroll"
    /\ UNCHANGED <<vtVars, arVars, b2Vars, extVars, b1_boot_status, b1_results, g_boot_context,
                   g_tz_initialized, g_attestation_report, b1_report,
                   g_tamper_context, g_tamper_config, b1_tamper>>

Main1_PufEnroll ==
    /\ b1_pc = "puf_enroll"
    /\ IF ~g_puf_config.initialized
       THEN b1_pc' = "halt" /\ UNCHANGED g_puf_config
       ELSE /\ b1_pc' = "tamper_detection_start"
            /\ g_puf_config' = [g_puf_config EXCEPT !.enrollment_done = 1]
    /\ UNCHANGED <<vtVars, arVars, b2Vars, extVars, b1_boot_status, b1_results, g_boot_context,
                   g_tz_initialized, g_attestation_report, b1_report,
                   g_tamper_context, g_tamper_config, b1_tamper>>

\* tamper_detection_start(&tamper_ctx): the caller's context is zeroed and
\* copied; the nominal samples go to the static context only.
Main1_TamperDetectionStart ==
    /\ b1_pc = "tamper_detection_start"
    /\ b1_tamper' = [b1_tamper EXCEPT !.ctx = ZeroTamperContext]
    /\ g_tamper_config' = [low_threshold       |-> VOLTAGE_THRESHOLD_LOW_MV,
                           high_threshold      |-> VOLTAGE_THRESHOLD_HIGH_MV,
                           temp_low_threshold  |-> ToU32(TEMP_THRESHOLD_LOW_C),
                           temp_high_threshold |-> ToU32(TEMP_THRESHOLD_HIGH_C)]
    /\ g_tamper_context' = [ZeroTamperContext EXCEPT
                               !.last_voltage_mv = VOLTAGE_NOMINAL_MV,
                               !.last_temp_c = TEMP_NOMINAL_C]
    /\ b1_pc' = "attestation_init"
    /\ UNCHANGED <<vtVars, arVars, b2Vars, extVars, b1_boot_status, b1_results, g_boot_context,
                   g_tz_initialized, g_puf_config, g_attestation_report, b1_report>>

Main1_AttestationInit ==
    /\ b1_pc = "attestation_init"
    /\ g_attestation_report' =
          IF g_attestation_report.initialized THEN g_attestation_report
          ELSE [initialized |-> TRUE, boot_count |-> 0, measurement_count |-> 0,
                event_count |-> 0, last_event_data |-> NoWord]
    /\ b1_pc' = "secure_boot_init"
    /\ UNCHANGED <<vtVars, arVars, b2Vars, extVars, b1_boot_status, b1_results, g_boot_context,
                   g_tz_initialized, g_puf_config, b1_report,
                   g_tamper_context, g_tamper_config, b1_tamper>>

\* execute_secure_boot, lines 257-261: secure_boot_init (context cleared, the
\* four tokens set, puf_init, anti_rollback_init), then status = VERIFYING.
ESB_SecureBootInit ==
    /\ b1_pc = "secure_boot_init"
    /\ SetLayerTokens
    /\ puf_init_effect
    /\ AntiRollbackInit
    /\ g_boot_context' = [status |-> BOOT_STATUS_VERIFYING, boot_count |-> 0 + 1]
    /\ b1_pc' = "verify_layered_tokens"
    /\ UNCHANGED <<b2Vars, extVars, b1_boot_status, b1_results, g_tz_initialized,
                   g_attestation_report, b1_report, g_tamper_context,
                   g_tamper_config, b1_tamper>>

\* A fault hits one token of the context before it is verified.
ESB_CorruptToken ==
    /\ b1_pc = "verify_layered_tokens"
    /\ CorruptToken
    /\ UNCHANGED <<arVars, b1Vars, b2Vars, extVars>>

\* ESB_Fail without the assignment to g_boot_context.status.
ESB_Fail_status_kept ==
    /\ UNCHANGED g_boot_context
    /\ b1_boot_status' = BOOT_STATUS_FAILURE
    /\ b1_pc' = "returned"

\* What execute_secure_boot does when a verification fails.
ESB_Fail ==
    /\ g_boot_context' = [g_boot_context EXCEPT !.status = BOOT_STATUS_FAILURE]
    /\ b1_boot_status' = BOOT_STATUS_FAILURE
    /\ b1_pc' = "returned"

ESB_VerifyLayeredTokens ==
    /\ b1_pc = "verify_layered_tokens"
    /\ LET token_result == verify_layered_tokens(verification_tokens) IN
       /\ b1_results' = [b1_results EXCEPT !.token_result = token_result]
       /\ IF token_result # TOKEN_STATE_ALL_VALID
          THEN ESB_Fail
          ELSE /\ b1_pc' = "verify_firmware_signature"
               /\ UNCHANGED <<g_boot_context, b1_boot_status>>
    /\ UNCHANGED <<vtVars, arVars, b2Vars, extVars, g_tz_initialized, g_puf_config,
                   g_attestation_report, b1_report, g_tamper_context,
                   g_tamper_config, b1_tamper>>

ESB_VerifyFirmwareSignature ==
    /\ b1_pc = "verify_firmware_signature"
    /\ LET signature_result == verify_firmware_signature(fw_header) IN
       /\ b1_results' = [b1_results EXCEPT !.signature_result = signature_result]
       /\ IF signature_result # TOKEN_STATE_ALL_VALID
          THEN ESB_Fail
          ELSE /\ b1_pc' = "check_anti_rollback"
               /\ UNCHANGED <<g_boot_context, b1_boot_status>>
    /\ UNCHANGED <<vtVars, arVars, b2Vars, extVars, g_tz_initialized, g_puf_config,
                   g_attestation_report, b1_report, g_tamper_context,
                   g_tamper_config, b1_tamper>>

ESB_CheckAntiRollback ==
    /\ b1_pc = "check_anti_rollback"
    /\ LET rollback_result == check_anti_rollback(g_anti_rollback_initialized,
                                                  g_otp_version, fw_header.version) IN
       /\ b1_results' = [b1_results EXCEPT !.rollback_result = rollback_result]
       /\ IF rollback_result # TOKEN_STATE_ALL_VALID
          THEN ESB_Fail
          ELSE /\ g_boot_context' = [g_boot_context EXCEPT !.status = BOOT_STATUS_SUCCESS]
               /\ b1_boot_status' = BOOT_STATUS_SUCCESS
               /\ b1_pc' = "returned"
    /\ ar_op' = "check_version_rollback"
    /\ ar_arg' = unpack_version(fw_header.version)
    /\ ar_ret' = check_version_rollback(g_anti_rollback_initialized, g_otp_version,
                                        unpack_version(fw_header.version))
    /\ ar_prev' = g_otp_version
    /\ ar_prev_init' = g_anti_rollback_initialized
    /\ UNCHANGED <<vtVars, b2Vars, extVars, g_anti_rollback_initialized, g_otp_version,
                   g_otp_counters,
                   g_tz_initialized, g_puf_config, g_attestation_report, b1_report,
                   g_tamper_context, g_tamper_config, b1_tamper>>

\* add_boot_measurement / add_event_log_entry on the static report.
add_boot_measurement(report) ==
    IF ~report.initialized \/ report.measurement_count >= MAX_MEASUREMENT_COUNT
    THEN report
    ELSE [report EXCEPT !.measurement_count = @ + 1]

add_event_log_entry(report, event_data) ==
    IF ~report.initialized \/ report.event_count >= MAX_EVENT_LOG_ENTRIES
    THEN report
    ELSE [report EXCEPT !.event_count = @ + 1, !.last_event_data = event_data]

\* generate_attestation_report on the static report: FALSE/unchanged when the
\* attestation system is not initialised, else boot_count++ and a copy made.
generate_attestation_report_v1(report) ==
    IF ~report.initialized THEN [ok |-> FALSE, report |-> report]
    ELSE [ok |-> TRUE, report |-> [report EXCEPT !.boot_count = @ + 1]]

\* main after execute_secure_boot has returned.  On BOOT_STATUS_SUCCESS:
\* measurement, success event, report generated, signed and exported as JSON
\* (only the fact that text was written is kept), then on to the application.
\* Otherwise: the failure is logged with the returned status,
\* check_tamper_events(&tamper_ctx) runs on the samples the code reads, the
\* response is executed, and main spins in while (1).
Main1_AfterBoot ==
    /\ b1_pc = "returned"
    /\ IF b1_boot_status = BOOT_STATUS_SUCCESS
       THEN LET logged == add_event_log_entry(
                              add_boot_measurement(g_attestation_report), W(0, 0))
                gen    == generate_attestation_report_v1(logged)
            IN /\ g_attestation_report' = gen.report
               /\ b1_report' = IF gen.ok
                               THEN [generated |-> TRUE, signed |-> TRUE, json_len |-> 1]
                               ELSE b1_report
               /\ b1_pc' = "application"
               /\ UNCHANGED <<g_tamper_context, b1_tamper>>
       ELSE LET r == check_tamper_events_v1(g_tamper_context, g_tamper_config,
                                            VOLTAGE_NOMINAL_MV, TEMP_NOMINAL_C)
            IN /\ g_attestation_report' =
                     add_event_log_entry(g_attestation_report, b1_boot_status)
               /\ g_tamper_context' = r.ctx
               /\ b1_tamper' = [ctx |-> r.ctx, events |-> r.events]
               /\ b1_pc' = "halt"
               /\ UNCHANGED b1_report
    /\ UNCHANGED <<vtVars, arVars, b2Vars, extVars, b1_boot_status, b1_results, g_boot_context,
                   g_tz_initialized, g_puf_config, g_tamper_config>>

(***************************************************************************)
(* Second boot sequence: main of src/main.c, secure_boot_init, the OTP     *)
(* rollback counter and the ACMP/IADC tamper monitor with its interrupt    *)
(* handlers                                                                *)
(***************************************************************************)
\* secure_boot.h (second implementation)
BOOT_STATUS_SUCCESS_V2     == W(0, 0)            \* BOOT_STATUS_SUCCESS 0x00000000
BOOT_STATUS_ERROR_GENERIC  == W(65535, 65535)    \* 0xFFFFFFFF
BOOT_STATUS_ERROR_TAMPER   == W(65535, 65534)    \* 0xFFFFFFFE
BOOT_STATUS_ERROR_ROLLBACK == W(65535, 65533)    \* 0xFFFFFFFD (never returned)
BOOT_STATUS_ERROR_GLITCH   == W(65535, 65531)    \* 0xFFFFFFFB
CF_TOKEN_INIT              == W(42405, 42405)    \* 0xA5A5A5A5
CF_TOKEN_RTSL_VERIFIED     == W(23130, 23130)    \* 0x5A5A5A5A
CF_TOKEN_TAMPER_OK         == W(50115, 50115)    \* 0xC3C3C3C3
CF_TOKEN_ROLLBACK_OK       == W(15420, 15420)    \* 0x3C3C3C3C
CF_TOKEN_SIGNATURE_OK      == W(26985, 26985)    \* 0x69696969
CF_TOKEN_BOOT_COMPLETE     == W(38550, 38550)    \* 0x96969696
RTSL_MAGIC_IMMUTABLE       == W(21071, 20308)    \* 0x524F4F54 "ROOT"
FIRMWARE_VERSION           == W(0, 1)            \* main.c: #define FIRMWARE_VERSION 1
MAX_ROLLBACK_COUNTER       == W(65535, 65535)    \* 0xFFFFFFFF, also the erased OTP word

\* The tamper_detection.h of the second implementation is not among the
\* sources: event bits are kept by name, and the thresholds are the ones the
\* README documents (1.7 V - 2.0 V, -40 C to 85 C).
TAMPER_NONE    == {}
VOLTAGE_MIN_MV == 1700
VOLTAGE_MAX_MV == 2000
TEMP_MIN_C     == 0 - 40
TEMP_MAX_C     == 85

\* Bounds of the second boot model.
MaxEnvEvents == 2      \* sensor changes injected during one boot attempt

\* Register contents the environment can present.
VoltageSamples == {1600, 1750, 2000, 2100}      \* ACMP_STATUS & 0xFFF, in mV
TempSamples    == {100, 750, 1400}              \* IADC_DATA raw
OtpValues      == {MAX_ROLLBACK_COUNTER, W(0, 0), W(0, 1), W(0, 2)}

\* while (timeout--) { if (ready) break; }: the value left in timeout when the
\* flag is seen in iteration ready_at (0: never seen, the counter wraps).
wait_loop(budget, ready_at) ==
    IF ready_at = 0 THEN W(65535, 65535) ELSE ToU32(budget - ready_at)

ReadyAt(budget) == {0, 1, budget}

read_supply_voltage(status) == status % 4096

\* (int32_t)((data - 500) / 10) with data unsigned: below 500 the difference
\* wraps around 2^32 = 10 * 429496729 + 6.
read_temperature(data) ==
    IF data >= 500 THEN (data - 500) \div 10
    ELSE 429496729 + ((data - 494) \div 10)

\* check_tamper_events(void): the events of this poll.
check_tamper_events(hwr) ==
    LET voltage     == read_supply_voltage(hwr.ACMP_STATUS)
        temperature == read_temperature(hwr.IADC_DATA)
    IN  (IF voltage < VOLTAGE_MIN_MV THEN {"TAMPER_VOLTAGE_LOW"} ELSE {})
        \cup (IF voltage > VOLTAGE_MAX_MV THEN {"TAMPER_VOLTAGE_HIGH"} ELSE {})
        \cup (IF temperature < TEMP_MIN_C THEN {"TAMPER_TEMP_LOW"} ELSE {})
        \cup (IF temperature > TEMP_MAX_C THEN {"TAMPER_TEMP_HIGH"} ELSE {})
        \cup (IF (hwr.ACMP_IF \div 256) % 256 # 0
              THEN {"TAMPER_GLITCH_DETECTED"} ELSE {})

\* handle_tamper_event: the response actions chosen for the events.
tamper_action(tamper_events) ==
    (IF tamper_events \cap {"TAMPER_VOLTAGE_LOW", "TAMPER_VOLTAGE_HIGH"} # {}
     THEN {"ERASE_KEYS", "LOCK"} ELSE {})
    \cup (IF tamper_events \cap {"TAMPER_TEMP_LOW", "TAMPER_TEMP_HIGH"} # {}
          THEN {"LOCK"} ELSE {})
    \cup (IF "TAMPER_GLITCH_DETECTED" \in tamper_events
          THEN {"ERASE_KEYS", "RESET"} ELSE {})

\* handle_tamper_event on the hardware: keys erased, device locked.
handle_tamper_event(hwr, tamper_events) ==
    [hwr EXCEPT !.KEYS_ERASED = @ \/ "ERASE_KEYS" \in tamper_action(tamper_events),
                !.DEVICE_LOCK = @ \/ "LOCK" \in tamper_action(tamper_events)]

\* control_flow_check: three equal comparisons, then the inverted one.
control_flow_check(token, expected) ==
    IF token = expected THEN BOOT_STATUS_SUCCESS_V2 ELSE BOOT_STATUS_ERROR_GLITCH

\* otp_write without the test of the lock bit.
otp_write_nolock(hwr, value, ready_at) ==
    [ok |-> ULess(W(0, 0), wait_loop(100000, ready_at)),
     hw |-> IF ready_at # 0 THEN [hwr EXCEPT !.OTP_COUNTER = value] ELSE hwr]

\* otp_write to the counter word: refused when OTP is locked; the hardware
\* stores the value when it completes; the result is timeout > 0.
otp_write(hwr, value, ready_at) ==
    IF hwr.OTP_LOCKED THEN [ok |-> FALSE, hw |-> hwr]
    ELSE [ok |-> ULess(W(0, 0), wait_loop(100000, ready_at)),
          hw |-> IF ready_at # 0 THEN [hwr EXCEPT !.OTP_COUNTER = value] ELSE hwr]

\* current + 1 on a 32-bit word.
WInc(w) == IF w[2] = 65535 THEN W((w[1] + 1) % 65536, 0) ELSE W(w[1], w[2] + 1)

\* generate_attestation_report: the number of characters written for the
\* measurements recorded (stage names as printed).
RECURSIVE report_entries_length(_)
report_entries_length(measurements) ==
    IF measurements = <<>> THEN 0
    ELSE 119 + (CASE Head(measurements) = "bootloader" -> 10
                  [] Head(measurements) = "rtsl" -> 4
                  [] OTHER -> 12)
         + (IF Len(measurements) > 1 THEN 1 ELSE 0)
         + report_entries_length(Tail(measurements))

report_length(measurements) == 213 + report_entries_length(measurements)

MAX_MEASUREMENTS == 16

\* record_measurement: appended while fewer than MAX_MEASUREMENTS are stored.
record_measurement(measurements, stage) ==
    IF Len(measurements) >= MAX_MEASUREMENTS THEN measurements
    ELSE Append(measurements, stage)

\* The interrupt lines: a latched flag with the interrupt enabled.
AcmpIrq == hw.ACMP_IEN /\ hw.ACMP_IF # 0
IadcIrq == hw.IADC_IEN /\ hw.IADC_IF # 0

Boot2Ended == b2_pc \in {"success", "failed", "reset"}

\* main executes its next statement only when no interrupt is pending.
Runnable == ~Boot2Ended /\ ~AcmpIrq /\ ~IadcIrq

\* History of one poll: the voltage sampled, and whether it differs from the
\* previous sample by more than the glitch threshold.
Sampled(hist, hwr) ==
    LET v == read_supply_voltage(hwr.ACMP_STATUS) IN
    [hist EXCEPT !.last_voltage = v,
                 !.delta_seen = @ \/ (hist.last_voltage # -1
                                      /\ (v - hist.last_voltage > GLITCH_DELTA_MV
                                          \/ hist.last_voltage - v > GLITCH_DELTA_MV))]

Passed(hist, stage) == [hist EXCEPT !.stages = Append(@, stage)]

NominalHw ==
    [ACMP_STATUS |-> 1750, ACMP_IF |-> 0, ACMP_IEN |-> FALSE,
     IADC_DATA |-> 750, IADC_IF |-> 0, IADC_IEN |-> FALSE,
     OTP_COUNTER |-> W(0, 1), OTP_LOCKED |-> FALSE,
     RTSL_LOCK |-> FALSE, KEYS_ERASED |-> FALSE, DEVICE_LOCK |-> FALSE]

\* The statics at reset, on hardware in one of the states HW.
InitBoot2State(HW) ==
    /\ b2_pc = "secure_boot_init"
    /\ b2_main = [status |-> NoWord, error |-> "none", attestation_len |-> 0,
                  increments |-> 0]
    /\ g_control_flow_token = W(0, 0)
    /\ g_tamper_events = TAMPER_NONE
    /\ g_tamper_monitoring_enabled = FALSE
    /\ hw \in HW
    /\ g_measurements = <<>>
    /\ b2_hist = [stages |-> <<>>, env_events |-> 0, last_voltage |-> -1,
                  delta_seen |-> FALSE, irq_events |-> {}]

PowerOnHw ==
    {[NominalHw EXCEPT !.ACMP_STATUS = v, !.IADC_DATA = d,
                       !.OTP_COUNTER = c, !.OTP_LOCKED = l] :
        v \in VoltageSamples, d \in TempSamples, c \in OtpValues, l \in BOOLEAN}

\* One step of the second boot: the new value of every variable it touches.
Set2(pc, main, token, events, hwr, measurements, hist) ==
    /\ b2_pc' = pc
    /\ b2_main' = main
    /\ g_control_flow_token' = token
    /\ g_tamper_events' = events
    /\ hw' = hwr
    /\ g_measurements' = measurements
    /\ b2_hist' = hist
    /\ UNCHANGED <<vtVars, arVars, b1Vars, extVars>>

\* secure_boot_init returns status to main, which prints the error and
\* returns -1.
FailInit(status, token, events, hwr, hist) ==
    /\ Set2("failed", [b2_main EXCEPT !.status = status, !.error = "init"],
            token, events, hwr, g_measurements, hist)
    /\ UNCHANGED g_tamper_monitoring_enabled

\* A later stage of main fails: the error printed, return -1.
FailMain(status, error, events, hwr, hist) ==
    /\ Set2("failed", [b2_main EXCEPT !.status = status, !.error = error],
            g_control_flow_token, events, hwr, g_measurements, hist)
    /\ UNCHANGED g_tamper_monitoring_enabled

\* handle_tamper_event(TAMPER_GLITCH_DETECTED) from a failed
\* control_flow_check: keys erased, device reset.
GlitchReset(token) ==
    /\ Set2("reset", b2_main, token, {"TAMPER_GLITCH_DETECTED"},
            handle_tamper_event(hw, {"TAMPER_GLITCH_DETECTED"}),
            g_measurements, b2_hist)
    /\ UNCHANGED g_tamper_monitoring_enabled

\* ---- the environment: supply voltage, temperature, comparator flags
EnvVoltage ==
    /\ ~Boot2Ended
    /\ b2_hist.env_events < MaxEnvEvents
    /\ \E v \in VoltageSamples \ {hw.ACMP_STATUS} :
          hw' = [hw EXCEPT !.ACMP_STATUS = v,
                           !.ACMP_IF = IF v < VOLTAGE_MIN_MV \/ v > VOLTAGE_MAX_MV
                                       THEN Or16(@, 1, 16) ELSE @]
    /\ b2_hist' = [b2_hist EXCEPT !.env_events = @ + 1]
    /\ UNCHANGED <<vtVars, arVars, b1Vars, extVars, b2_pc, b2_main, g_control_flow_token,
                   g_tamper_events, g_tamper_monitoring_enabled, g_measurements>>

EnvGlitch ==
    /\ ~Boot2Ended
    /\ b2_hist.env_events < MaxEnvEvents
    /\ hw' = [hw EXCEPT !.ACMP_IF = Or16(@, 256, 16)]
    /\ b2_hist' = [b2_hist EXCEPT !.env_events = @ + 1]
    /\ UNCHANGED <<vtVars, arVars, b1Vars, extVars, b2_pc, b2_main, g_control_flow_token,
                   g_tamper_events, g_tamper_monitoring_enabled, g_measurements>>

EnvTemperature ==
    /\ ~Boot2Ended
    /\ b2_hist.env_events < MaxEnvEvents
    /\ \E d \in TempSamples \ {hw.IADC_DATA} :
          hw' = [hw EXCEPT !.IADC_DATA = d,
                           !.IADC_IF = IF read_temperature(d) < TEMP_MIN_C
                                          \/ read_temperature(d) > TEMP_MAX_C
                                       THEN 1 ELSE @]
    /\ b2_hist' = [b2_hist EXCEPT !.env_events = @ + 1]
    /\ UNCHANGED <<vtVars, arVars, b1Vars, extVars, b2_pc, b2_main, g_control_flow_token,
                   g_tamper_events, g_tamper_monitoring_enabled, g_measurements>>

\* ---- the interrupt handlers
\* The body shared by ACMP_IRQHandler and IADC_IRQHandler; cleared is the
\* hardware after the handler's write to its flag register.
IRQHandlerBody(cleared) ==
    IF g_tamper_monitoring_enabled
    THEN LET events == check_tamper_events(hw)
             hist   == [Sampled(b2_hist, hw) EXCEPT !.irq_events = @ \cup events]
         IN IF events # TAMPER_NONE
            THEN IF "RESET" \in tamper_action(events)
                 THEN Set2("reset", b2_main, g_control_flow_token, events,
                           handle_tamper_event(hw, events), g_measurements, hist)
                 ELSE Set2(b2_pc, b2_main, g_control_flow_token, events,
                           handle_tamper_event(cleared, events), g_measurements, hist)
            ELSE Set2(b2_pc, b2_main, g_control_flow_token, g_tamper_events,
                      cleared, g_measurements, hist)
    ELSE Set2(b2_pc, b2_main, g_control_flow_token, g_tamper_events,
              cleared, g_measurements, b2_hist)

ACMP_IRQHandler ==
    /\ ~Boot2Ended
    /\ AcmpIrq
    /\ IRQHandlerBody([hw EXCEPT !.ACMP_IF = 0])
    /\ UNCHANGED g_tamper_monitoring_enabled

IADC_IRQHandler ==
    /\ ~Boot2Ended
    /\ IadcIrq
    /\ IRQHandlerBody([hw EXCEPT !.IADC_IF = 0])
    /\ UNCHANGED g_tamper_monitoring_enabled

\* ---- secure_boot_init
\* g_control_flow_token = CF_TOKEN_INIT, the first control_flow_check,
\* trustzone_init (which cannot fail).
SBI_Begin ==
    /\ b2_pc = "secure_boot_init" /\ Runnable
    /\ IF control_flow_check(CF_TOKEN_INIT, CF_TOKEN_INIT) # BOOT_STATUS_SUCCESS_V2
       THEN GlitchReset(CF_TOKEN_INIT)
       ELSE /\ Set2("trng_init", b2_main, CF_TOKEN_INIT, g_tamper_events, hw,
                    g_measurements, b2_hist)
            /\ UNCHANGED g_tamper_monitoring_enabled

\* trng_init and puf_init waiting for their flags without a retry budget: a
\* flag that never shows keeps the boot in the wait.
SBI_TrngPufInit_unbounded ==
    /\ b2_pc = "trng_init" /\ Runnable
    /\ \E trng_ready_at \in ReadyAt(100000), puf_ready_at \in ReadyAt(100000) :
          /\ Set2(IF trng_ready_at = 0 \/ puf_ready_at = 0 THEN "trng_wait"
                  ELSE "tamper_detection_init", b2_main, g_control_flow_token,
                  g_tamper_events, hw, g_measurements, b2_hist)
          /\ UNCHANGED g_tamper_monitoring_enabled

\* trng_init, then puf_init: each waits for its ready flag and fails when the
\* flag never shows.
SBI_TrngPufInit ==
    /\ b2_pc = "trng_init" /\ Runnable
    /\ \E trng_ready_at \in ReadyAt(100000), puf_ready_at \in ReadyAt(100000) :
          IF trng_ready_at = 0 \/ puf_ready_at = 0
          THEN FailInit(BOOT_STATUS_ERROR_GENERIC, g_control_flow_token,
                        g_tamper_events, hw, b2_hist)
          ELSE /\ Set2("tamper_detection_init", b2_main, g_control_flow_token,
                       g_tamper_events, hw, g_measurements, b2_hist)
               /\ UNCHANGED g_tamper_monitoring_enabled

\* tamper_detection_init (events cleared), otp_counter_init (an erased counter
\* is written to 0), attestation_init (measurements cleared).
SBI_TamperOtpAttestationInit ==
    /\ b2_pc = "tamper_detection_init" /\ Runnable
    /\ \E ready_at \in ReadyAt(100000) :
          LET w == IF hw.OTP_COUNTER = MAX_ROLLBACK_COUNTER
                   THEN otp_write(hw, W(0, 0), ready_at)
                   ELSE [ok |-> TRUE, hw |-> hw]
          IN IF ~w.ok
             THEN FailInit(BOOT_STATUS_ERROR_GENERIC, g_control_flow_token,
                           TAMPER_NONE, w.hw, b2_hist)
             ELSE /\ Set2("verify_root_of_trust", b2_main, g_control_flow_token,
                          TAMPER_NONE, w.hw, <<>>, b2_hist)
                  /\ UNCHANGED g_tamper_monitoring_enabled

\* verify_root_of_trust that sets the token and the lock whatever the RTSL
\* status register holds.
SBI_VerifyRootOfTrust_unchecked ==
    /\ b2_pc = "verify_root_of_trust" /\ Runnable
    /\ \E status \in {RTSL_MAGIC_IMMUTABLE, W(0, 0)} :
          Set2("check_tamper_events", b2_main, CF_TOKEN_RTSL_VERIFIED,
               g_tamper_events, [hw EXCEPT !.RTSL_LOCK = TRUE], g_measurements,
               IF status = RTSL_MAGIC_IMMUTABLE THEN Passed(b2_hist, "RootOfTrust")
               ELSE b2_hist)
    /\ UNCHANGED g_tamper_monitoring_enabled

\* verify_root_of_trust inside secure_boot_init, then the control_flow_check on
\* CF_TOKEN_RTSL_VERIFIED.
SBI_VerifyRootOfTrust ==
    /\ b2_pc = "verify_root_of_trust" /\ Runnable
    /\ \E status \in {RTSL_MAGIC_IMMUTABLE, W(0, 0)} :
          IF status # RTSL_MAGIC_IMMUTABLE
          THEN FailInit(BOOT_STATUS_ERROR_GENERIC, g_control_flow_token,
                        g_tamper_events, hw, b2_hist)
          ELSE IF control_flow_check(CF_TOKEN_RTSL_VERIFIED, CF_TOKEN_RTSL_VERIFIED)
                    # BOOT_STATUS_SUCCESS_V2
               THEN GlitchReset(CF_TOKEN_RTSL_VERIFIED)
               ELSE /\ Set2("check_tamper_events", b2_main, CF_TOKEN_RTSL_VERIFIED,
                            g_tamper_events, [hw EXCEPT !.RTSL_LOCK = TRUE],
                            g_measurements, Passed(b2_hist, "RootOfTrust"))
                    /\ UNCHANGED g_tamper_monitoring_enabled

\* The tamper poll of secure_boot_init: on events, handle_tamper_event, the
\* token cleared, BOOT_STATUS_ERROR_TAMPER; else CF_TOKEN_TAMPER_OK.
SBI_CheckTamperEvents ==
    /\ b2_pc = "check_tamper_events" /\ Runnable
    /\ LET tamper == check_tamper_events(hw)
           hist   == Sampled(b2_hist, hw)
       IN IF tamper # TAMPER_NONE
          THEN IF "RESET" \in tamper_action(tamper)
               THEN /\ Set2("reset", b2_main, g_control_flow_token, tamper,
                            handle_tamper_event(hw, tamper), g_measurements, hist)
                    /\ UNCHANGED g_tamper_monitoring_enabled
               ELSE FailInit(BOOT_STATUS_ERROR_TAMPER, W(0, 0), tamper,
                             handle_tamper_event(hw, tamper), hist)
          ELSE IF control_flow_check(CF_TOKEN_TAMPER_OK, CF_TOKEN_TAMPER_OK)
                    # BOOT_STATUS_SUCCESS_V2
               THEN GlitchReset(CF_TOKEN_TAMPER_OK)
               ELSE /\ Set2("enable_tamper_monitoring", b2_main, CF_TOKEN_TAMPER_OK,
                            g_tamper_events \cup tamper, hw, g_measurements,
                            Passed(hist, "TamperClear"))
                    /\ UNCHANGED g_tamper_monitoring_enabled

\* enable_tamper_monitoring, the return to main, and the bootloader
\* measurement main records.
SBI_EnableTamperMonitoring ==
    /\ b2_pc = "enable_tamper_monitoring" /\ Runnable
    /\ g_tamper_monitoring_enabled' = TRUE
    /\ Set2("stage2", [b2_main EXCEPT !.status = BOOT_STATUS_SUCCESS_V2],
            g_control_flow_token, g_tamper_events,
            [hw EXCEPT !.ACMP_IEN = TRUE, !.IADC_IEN = TRUE],
            record_measurement(g_measurements, "bootloader"), b2_hist)

\* ---- main, stages 2 to 8
\* Stage 2: verify_root_of_trust; the RTSL measurement; stage 3: the Secure
\* Vault measurement.
Main_Stage2_VerifyRootOfTrust ==
    /\ b2_pc = "stage2" /\ Runnable
    /\ \E status \in {RTSL_MAGIC_IMMUTABLE, W(0, 0)} :
          IF status # RTSL_MAGIC_IMMUTABLE
          THEN FailMain(BOOT_STATUS_ERROR_GENERIC, "root_of_trust",
                        g_tamper_events, hw, b2_hist)
          ELSE /\ Set2("stage4", [b2_main EXCEPT !.status = BOOT_STATUS_SUCCESS_V2],
                       CF_TOKEN_RTSL_VERIFIED, g_tamper_events, hw,
                       record_measurement(record_measurement(g_measurements, "rtsl"),
                                          "secure_vault"),
                       Passed(b2_hist, "RootOfTrust"))
               /\ UNCHANGED g_tamper_monitoring_enabled

\* Stage 4, verify_no_rollback(FIRMWARE_VERSION) up to its loop: a version
\* below the counter is a rollback; a version above it needs increments.
Main_Stage4_VerifyNoRollback ==
    /\ b2_pc = "stage4" /\ Runnable
    /\ LET stored_version == hw.OTP_COUNTER IN
       IF ULess(FIRMWARE_VERSION, stored_version)
       THEN FailMain(b2_main.status, "rollback", g_tamper_events, hw, b2_hist)
       ELSE IF ULess(stored_version, FIRMWARE_VERSION)
            THEN /\ Set2("stage4_increment",
                         [b2_main EXCEPT !.increments =
                             (FIRMWARE_VERSION[1] - stored_version[1]) * 65536
                             + FIRMWARE_VERSION[2] - stored_version[2]],
                         g_control_flow_token, g_tamper_events, hw, g_measurements,
                         b2_hist)
                 /\ UNCHANGED g_tamper_monitoring_enabled
            ELSE /\ Set2("stage5", b2_main, g_control_flow_token, g_tamper_events,
                         hw, g_measurements, Passed(b2_hist, "RollbackClear"))
                 /\ UNCHANGED g_tamper_monitoring_enabled

\* One turn of the loop of verify_no_rollback: otp_increment_counter.
Main_Stage4_OtpIncrementCounter ==
    /\ b2_pc = "stage4_increment" /\ Runnable
    /\ \E ready_at \in ReadyAt(100000) :
          LET current == hw.OTP_COUNTER
              w == IF ~ULess(current, MAX_ROLLBACK_COUNTER)
                   THEN [ok |-> FALSE, hw |-> hw]
                   ELSE otp_write(hw, WInc(current), ready_at)
          IN IF ~w.ok
             THEN FailMain(b2_main.status, "rollback", g_tamper_events, w.hw, b2_hist)
             ELSE IF b2_main.increments > 1
                  THEN /\ Set2("stage4_increment",
                               [b2_main EXCEPT !.increments = @ - 1],
                               g_control_flow_token, g_tamper_events, w.hw,
                               g_measurements, b2_hist)
                       /\ UNCHANGED g_tamper_monitoring_enabled
                  ELSE /\ Set2("stage5", [b2_main EXCEPT !.increments = 0],
                               g_control_flow_token, g_tamper_events, w.hw,
                               g_measurements, Passed(b2_hist, "RollbackClear"))
                       /\ UNCHANGED g_tamper_monitoring_enabled

\* Stage 5: control_flow_check on two constants; stage 6: secure_debug_init,
\* which always succeeds.
Main_Stage5_ControlFlowCheck ==
    /\ b2_pc = "stage5" /\ Runnable
    /\ IF control_flow_check(CF_TOKEN_RTSL_VERIFIED, CF_TOKEN_RTSL_VERIFIED)
            # BOOT_STATUS_SUCCESS_V2
       THEN GlitchReset(g_control_flow_token)
       ELSE /\ Set2("stage7", [b2_main EXCEPT !.status = BOOT_STATUS_SUCCESS_V2],
                    g_control_flow_token, g_tamper_events, hw, g_measurements,
                    b2_hist)
            /\ UNCHANGED g_tamper_monitoring_enabled

\* Stage 7: generate_attestation_report; it returns 0 when puf_derive_key sees
\* its ready flag with timeout == 0.
Main_Stage7_GenerateAttestationReport ==
    /\ b2_pc = "stage7" /\ Runnable
    /\ \E ready_at \in ReadyAt(100000) :
          IF wait_loop(100000, ready_at) = W(0, 0)
          THEN FailMain(b2_main.status, "attestation", g_tamper_events, hw, b2_hist)
          ELSE /\ Set2("stage8",
                       [b2_main EXCEPT !.attestation_len = report_length(g_measurements)],
                       g_control_flow_token, g_tamper_events, hw, g_measurements,
                       Passed(b2_hist, "AttestationReady"))
               /\ UNCHANGED g_tamper_monitoring_enabled

\* Stage 8: verify_attestation (length and fields), then the final tamper
\* poll; without events the boot is complete.
Main_Stage8_FinalVerification ==
    /\ b2_pc = "stage8" /\ Runnable
    /\ IF b2_main.attestation_len < 100
       THEN FailMain(b2_main.status, "verify_attestation", g_tamper_events, hw, b2_hist)
       ELSE LET tamper == check_tamper_events(hw)
                hist   == Sampled(b2_hist, hw)
            IN IF tamper # TAMPER_NONE
               THEN FailMain(b2_main.status, "tamper", g_tamper_events \cup tamper,
                             hw, hist)
               ELSE /\ Set2("success", b2_main, g_control_flow_token,
                            g_tamper_events \cup tamper, hw, g_measurements,
                            Passed(hist, "TamperClear"))
                    /\ UNCHANGED g_tamper_monitoring_enabled

\* ---- stage 8 with the final poll executed statement by statement
\* Set2 for a step of main that also changes the frame of its poll.
Set2Call(pc, main, events, hist, frame) ==
    /\ b2_pc' = pc
    /\ b2_main' = main
    /\ g_tamper_events' = events
    /\ b2_hist' = hist
    /\ cte_frame' = frame
    /\ UNCHANGED <<g_control_flow_token, g_tamper_monitoring_enabled, hw,
                   g_measurements>>
    /\ UNCHANGED <<vtVars, arVars, b1Vars, fsVars, kfVars, tmVars, trVars, atVars,
                   drvVars, gfVars, ext6Vars>>

\* verify_attestation, then lines 432-456 of check_tamper_events: the sensors
\* are read into the local events.
Stage8_SampleEvents ==
    /\ b2_pc = "stage8" /\ Runnable
    /\ IF b2_main.attestation_len < 100
       THEN FailMain(b2_main.status, "verify_attestation", g_tamper_events, hw,
                     b2_hist)
       ELSE Set2Call("stage8_load", b2_main, g_tamper_events, Sampled(b2_hist, hw),
                     [cte_frame EXCEPT !.events = check_tamper_events(hw),
                                       !.irq_before = b2_hist.irq_events])

\* g_tamper_events |= events, first half: the volatile word is loaded.
Stage8_LoadTamperEvents ==
    /\ b2_pc = "stage8_load" /\ Runnable
    /\ Set2Call("stage8_store", b2_main, g_tamper_events, b2_hist,
                [cte_frame EXCEPT !.loaded = g_tamper_events])

\* g_tamper_events |= events, second half: the or of the loaded value and the
\* local events is stored; main then tests the events returned.
Stage8_StoreTamperEvents ==
    /\ b2_pc = "stage8_store" /\ Runnable
    /\ LET frame == [cte_frame EXCEPT !.returned = TRUE] IN
       IF cte_frame.events # TAMPER_NONE
       THEN Set2Call("failed", [b2_main EXCEPT !.error = "tamper"],
                     cte_frame.loaded \cup cte_frame.events, b2_hist, frame)
       ELSE Set2Call("success", b2_main, cte_frame.loaded \cup cte_frame.events,
                     Passed(b2_hist, "TamperClear"), frame)

(***************************************************************************)
(* verify_firmware_signature on headers read from flash                    *)
(***************************************************************************)
\* Headers a flash can hold: magic, image_size (0, 0x10000, 0x100000,
\* 0x100001) and the ECDSA signature field, kept as the image it signs.
FlashImages == 0 .. 3

FlashHeaders ==
    [magic      : {W(17997, 22352), W(0, 0)},
     image_size : {W(0, 0), W(1, 0), W(16, 0), W(16, 1)},
     signature  : FlashImages]

InitSignatureState(headers, images) ==
    /\ fs_header \in headers
    /\ fs_image \in images
    /\ fs_ret = NoWord

\* signature_result = verify_firmware_signature(&fw_header, image)
CallVerifyFirmwareSignature ==
    /\ fs_ret = NoWord
    /\ fs_ret' = verify_firmware_signature(fs_header)
    /\ UNCHANGED <<fs_header, fs_image, vtVars, arVars, b1Vars, b2Vars, kfVars, ext2Vars>>

\* The next header and image are read from flash.
ReadFirmwareHeader ==
    /\ fs_ret # NoWord
    /\ fs_header' \in FlashHeaders
    /\ fs_image' \in FlashImages
    /\ fs_ret' = NoWord
    /\ UNCHANGED <<vtVars, arVars, b1Vars, b2Vars, kfVars, ext2Vars>>


(***************************************************************************)
(* Key fabric: puf.c (puf_init, puf_enroll, puf_reconstruct_key,           *)
(* puf_derive_key, puf_wrap_key, puf_unwrap_key)                           *)
(***************************************************************************)
PUF_KEY_SIZE     == 32
WRAPPED_KEY_SIZE == 48
TAG_SIZE         == 16       \* uint8_t tag[16]
HELPER_DATA_SIZE == 64       \* static uint8_t g_puf_helper_data[64]

\* Bounds of the key fabric model.
MaxReconstructions == 3      \* cap on g_puf_config.reconstruction_count

\* Byte buffers are functions from 0 .. n-1; a buffer nothing was written to
\* (an unused local, a NULL pointer) is NoBytes.
NoBytes  == <<>>
Zeros(n) == [i \in 0 .. n - 1 |-> 0]
\* a ^ b on uint8_t, tabulated once.
XorTable == [a \in 0 .. 255 |-> [b \in 0 .. 255 |-> Xor16(a, b, 8)]]
XorByte(a, b) == XorTable[a][b]

\* "KEY_WRAPPING_v1", sizeof - 1 = 15 bytes.
kek_context ==
    [i \in 0 .. 14 |->
        <<75, 69, 89, 95, 87, 82, 65, 80, 80, 73, 78, 71, 95, 118, 49>>[i + 1]]

KeyTypes == 1 .. 4           \* KEY_TYPE_ENCRYPTION .. KEY_TYPE_STORAGE
KeySizes == {1, 16, 17, 32, 33}

\* The plaintext keys callers wrap: two byte patterns of every size.
PlainKeys ==
    {[key |-> [i \in 0 .. n - 1 |-> (a + 7 * i) % 256], size |-> n] :
        n \in KeySizes, a \in {0, 201}}

\* puf_enroll, lines 88-90: the simulated helper data.
enrolled_helper_data == [i \in 0 .. HELPER_DATA_SIZE - 1 |-> XorByte(i % 256, 165)]

\* A reconstruction whose key depends on reconstruction_count.
puf_reconstruct_key_counted(statics) ==
    [i \in 0 .. PUF_KEY_SIZE - 1 |->
        XorByte(XorByte(statics.helper[i % HELPER_DATA_SIZE], 90), statics.count)]

\* puf_reconstruct_key, lines 127-129: the key written to g_puf_key, from the
\* statics of puf.c.
puf_reconstruct_key(statics) ==
    [i \in 0 .. PUF_KEY_SIZE - 1 |-> XorByte(statics.helper[i % HELPER_DATA_SIZE], 90)]

\* puf_derive_key, lines 158-164: base key, context (NoBytes for NULL).
puf_derive_key(base_key, context, key_size) ==
    [i \in 0 .. key_size - 1 |->
        IF context # NoBytes
        THEN XorByte(base_key[i % PUF_KEY_SIZE], context[i % 15])
        ELSE base_key[i % PUF_KEY_SIZE]]

\* puf_wrap_key, lines 204-216, given the wrapping key.
puf_wrap_key(plaintext_key, key_size, key_type, wrapping_key) ==
    [wrapped_key |-> [i \in 0 .. WRAPPED_KEY_SIZE - 1 |->
                         IF i < key_size
                         THEN XorByte(plaintext_key[i], wrapping_key[i % PUF_KEY_SIZE])
                         ELSE 0],
     key_type    |-> key_type,
     version     |-> 1,
     tag         |-> [i \in 0 .. TAG_SIZE - 1 |->
                         XorByte(wrapping_key[i], plaintext_key[i % key_size])]]

\* An unwrap that decrypts with the wrapping key shifted by one byte.
puf_unwrap_key_shifted(wrapped, key_size, wrapping_key) ==
    LET plaintext_key == [i \in 0 .. key_size - 1 |->
                             XorByte(wrapped.wrapped_key[i],
                                     wrapping_key[(i + 1) % PUF_KEY_SIZE])]
        diff == {i \in 0 .. TAG_SIZE - 1 :
                    XorByte(wrapping_key[i], plaintext_key[i % key_size])
                        # wrapped.tag[i]}
    IN IF diff # {} THEN [ok |-> FALSE, plaintext_key |-> Zeros(key_size)]
       ELSE [ok |-> TRUE, plaintext_key |-> plaintext_key]

\* puf_unwrap_key, lines 245-272, given the wrapping key: the plaintext
\* written to the output, the expected tag, the comparison, the zeroization
\* of the output when the tags differ.
puf_unwrap_key(wrapped, key_size, wrapping_key) ==
    LET plaintext_key == [i \in 0 .. key_size - 1 |->
                             XorByte(wrapped.wrapped_key[i],
                                     wrapping_key[i % PUF_KEY_SIZE])]
        diff == {i \in 0 .. TAG_SIZE - 1 :
                    XorByte(wrapping_key[i], plaintext_key[i % key_size])
                        # wrapped.tag[i]}
    IN IF diff # {} THEN [ok |-> FALSE, plaintext_key |-> Zeros(key_size)]
       ELSE [ok |-> TRUE, plaintext_key |-> plaintext_key]

NoWrapped == [wrapped_key |-> NoBytes, key_type |-> 0, version |-> 0, tag |-> NoBytes]
NoPlain   == [key |-> NoBytes, size |-> 0]
NoFlip    == [field |-> "none", byte |-> 0, bit |-> 0]
NoCall    == [op |-> "none", ret |-> FALSE, out |-> NoBytes]
NoStack   == [base_key |-> NoBytes, wrapping_key |-> NoBytes]

\* The statics of puf.c beside g_puf_config, and the caller's objects.
InitKeyFabricState ==
    /\ g_puf_helper_data = Zeros(HELPER_DATA_SIZE)
    /\ g_puf_key = Zeros(PUF_KEY_SIZE)
    /\ reconstruction_count = 0
    /\ kf_stack = NoStack
    /\ kf_call = NoCall
    /\ kf_plain = NoPlain
    /\ kf_wrapped = NoWrapped
    /\ kf_flip = NoFlip
    /\ kf_reconstructed = [first |-> NoBytes, calls |-> 0]

\* What a key fabric call leaves alone outside puf.c.
KfFrame ==
    UNCHANGED <<vtVars, arVars, b2Vars, fsVars, ext2Vars, b1_pc, b1_boot_status, b1_results,
                g_boot_context, g_tz_initialized, g_attestation_report, b1_report,
                g_tamper_context, g_tamper_config, b1_tamper>>

Enrolled == g_puf_config.initialized /\ g_puf_config.enrollment_done # 0

\* The caller holds no wrapped key with a flipped bit.
Untampered == kf_flip = NoFlip

\* The statics after the body of puf_reconstruct_key, or unchanged when one
\* of its guards returns false.
Reconstruct(key_size) ==
    IF g_puf_config.initialized /\ key_size = PUF_KEY_SIZE /\ Enrolled
    THEN [ok |-> TRUE,
          key |-> puf_reconstruct_key([helper |-> g_puf_helper_data,
                                       count |-> reconstruction_count]),
          count |-> reconstruction_count + 1]
    ELSE [ok |-> FALSE, key |-> g_puf_key, count |-> reconstruction_count]

\* puf_derive_key as called by wrap and unwrap: the wrapping key or failure,
\* and base_key as the call leaves it on the stack.
DeriveWrappingKey ==
    LET r == Reconstruct(PUF_KEY_SIZE) IN
    IF g_puf_config.initialized /\ r.ok
    THEN [ok |-> TRUE, key |-> puf_derive_key(r.key, kek_context, PUF_KEY_SIZE),
          base_key |-> Zeros(PUF_KEY_SIZE), r |-> r]
    ELSE [ok |-> FALSE, key |-> NoBytes, base_key |-> NoBytes, r |-> r]

PufInit ==
    /\ Untampered
    /\ puf_init_effect
    /\ kf_call' = [op |-> "puf_init", ret |-> TRUE, out |-> NoBytes]
    /\ kf_stack' = NoStack
    /\ UNCHANGED <<g_puf_helper_data, g_puf_key, reconstruction_count, kf_plain,
                   kf_wrapped, kf_flip, kf_reconstructed>>
    /\ KfFrame

PufEnroll ==
    /\ Untampered
    /\ IF ~g_puf_config.initialized
       THEN /\ kf_call' = [op |-> "puf_enroll", ret |-> FALSE, out |-> NoBytes]
            /\ UNCHANGED <<g_puf_config, g_puf_helper_data>>
       ELSE /\ kf_call' = [op |-> "puf_enroll", ret |-> TRUE, out |-> NoBytes]
            /\ g_puf_helper_data' = IF g_puf_config.enrollment_done # 0
                                    THEN g_puf_helper_data ELSE enrolled_helper_data
            /\ g_puf_config' = [g_puf_config EXCEPT !.enrollment_done = 1]
    /\ kf_stack' = NoStack
    /\ UNCHANGED <<g_puf_key, reconstruction_count, kf_plain, kf_wrapped, kf_flip,
                   kf_reconstructed>>
    /\ KfFrame

\* puf_reconstruct_key(key_output, key_size) on a zeroed caller buffer.
PufReconstructKey ==
    /\ Untampered
    /\ reconstruction_count < MaxReconstructions
    /\ \E key_size \in {PUF_KEY_SIZE, TAG_SIZE} :
          LET r == Reconstruct(key_size) IN
          /\ g_puf_key' = r.key
          /\ reconstruction_count' = r.count
          /\ kf_call' = [op |-> "puf_reconstruct_key", ret |-> r.ok,
                         out |-> IF r.ok THEN r.key ELSE Zeros(key_size)]
          /\ kf_reconstructed' =
                IF ~r.ok THEN kf_reconstructed
                ELSE [first |-> IF kf_reconstructed.calls = 0 THEN r.key
                                ELSE kf_reconstructed.first,
                      calls |-> kf_reconstructed.calls + 1]
    /\ kf_stack' = NoStack
    /\ UNCHANGED <<g_puf_config, g_puf_helper_data, kf_plain, kf_wrapped, kf_flip>>
    /\ KfFrame

\* puf_derive_key(context, context_len, derived_key, key_size).
PufDeriveKey ==
    /\ Untampered
    /\ reconstruction_count < MaxReconstructions
    /\ \E context \in {NoBytes, kek_context}, key_size \in {TAG_SIZE, PUF_KEY_SIZE} :
          LET r == Reconstruct(PUF_KEY_SIZE) IN
          IF g_puf_config.initialized /\ r.ok
          THEN /\ g_puf_key' = r.key
               /\ reconstruction_count' = r.count
               /\ kf_call' = [op |-> "puf_derive_key", ret |-> TRUE,
                              out |-> puf_derive_key(r.key, context, key_size)]
               /\ kf_stack' = [NoStack EXCEPT !.base_key = Zeros(PUF_KEY_SIZE)]
          ELSE /\ kf_call' = [op |-> "puf_derive_key", ret |-> FALSE,
                              out |-> Zeros(key_size)]
               /\ kf_stack' = NoStack
               /\ UNCHANGED <<g_puf_key, reconstruction_count>>
    /\ UNCHANGED <<g_puf_config, g_puf_helper_data, kf_plain, kf_wrapped, kf_flip,
                   kf_reconstructed>>
    /\ KfFrame

\* puf_wrap_key(plaintext_key, key_size, key_type, &wrapped).
PufWrapKey ==
    /\ Untampered
    /\ reconstruction_count < MaxReconstructions
    /\ \E plain \in PlainKeys, key_type \in KeyTypes :
          /\ kf_plain' = plain
          /\ IF ~g_puf_config.initialized \/ plain.size > WRAPPED_KEY_SIZE - 16
             THEN /\ kf_call' = [op |-> "puf_wrap_key", ret |-> FALSE, out |-> NoBytes]
                  /\ kf_wrapped' = NoWrapped
                  /\ kf_stack' = NoStack
                  /\ UNCHANGED <<g_puf_key, reconstruction_count>>
             ELSE LET k == DeriveWrappingKey IN
                  /\ g_puf_key' = k.r.key
                  /\ reconstruction_count' = k.r.count
                  /\ kf_call' = [op |-> "puf_wrap_key", ret |-> k.ok, out |-> NoBytes]
                  /\ kf_wrapped' = IF k.ok
                                   THEN puf_wrap_key(plain.key, plain.size, key_type, k.key)
                                   ELSE NoWrapped
                  /\ kf_stack' = [base_key |-> k.base_key,
                                  wrapping_key |-> IF k.ok THEN Zeros(PUF_KEY_SIZE)
                                                   ELSE NoBytes]
    /\ kf_flip' = NoFlip
    /\ UNCHANGED <<g_puf_config, g_puf_helper_data, kf_reconstructed>>
    /\ KfFrame

\* Between wrap and unwrap one bit of the stored wrapped key is flipped, in a
\* ciphertext byte or in the tag.
FlipBit ==
    /\ kf_call.op = "puf_wrap_key" /\ kf_call.ret
    /\ Untampered
    /\ \E field \in {"wrapped_key", "tag"}, bit \in 0 .. 7 :
       \E byte \in 0 .. (IF field = "tag" THEN TAG_SIZE ELSE kf_plain.size) - 1 :
          /\ kf_flip' = [field |-> field, byte |-> byte, bit |-> bit]
          /\ kf_wrapped' =
                IF field = "tag"
                THEN [kf_wrapped EXCEPT !.tag[byte] = XorByte(@, 2 ^ bit)]
                ELSE [kf_wrapped EXCEPT !.wrapped_key[byte] = XorByte(@, 2 ^ bit)]
    /\ UNCHANGED <<g_puf_config, g_puf_helper_data, g_puf_key, reconstruction_count,
                   kf_stack, kf_call, kf_plain, kf_reconstructed>>
    /\ KfFrame

\* puf_unwrap_key(&wrapped, plaintext_key, key_size) on a zeroed caller
\* buffer of the size the key was wrapped with.
PufUnwrapKey ==
    /\ kf_wrapped # NoWrapped
    /\ kf_call.op # "puf_unwrap_key"
    /\ reconstruction_count < MaxReconstructions
    /\ LET k == DeriveWrappingKey IN
       IF ~k.ok
       THEN /\ kf_call' = [op |-> "puf_unwrap_key", ret |-> FALSE,
                           out |-> Zeros(kf_plain.size)]
            /\ kf_stack' = NoStack
            /\ UNCHANGED <<g_puf_key, reconstruction_count>>
       ELSE LET u == puf_unwrap_key(kf_wrapped, kf_plain.size, k.key) IN
            /\ g_puf_key' = k.r.key
            /\ reconstruction_count' = k.r.count
            /\ kf_call' = [op |-> "puf_unwrap_key", ret |-> u.ok,
                           out |-> u.plaintext_key]
            /\ kf_stack' = [base_key |-> k.base_key,
                            wrapping_key |-> Zeros(PUF_KEY_SIZE)]
    /\ UNCHANGED <<g_puf_config, g_puf_helper_data, kf_plain, kf_wrapped, kf_flip,
                   kf_reconstructed>>
    /\ KfFrame

(***************************************************************************)
(* Tamper detection of the first implementation on arbitrary samples       *)
(* (tamper_detection.c: tamper_detection_start, check_tamper_events).      *)
(* The source reads "simulated" samples fixed at the nominal values where  *)
(* production code reads ACMP->STATUS and IADC->SINGLEDATA; here the       *)
(* value read is an input, the nominal values among them.                  *)
(***************************************************************************)
MaxTamperEvents == 4    \* checks stop once event_count has reached this

VoltageSamplesV1 == {2500, 2700, 3000, 3100, VOLTAGE_NOMINAL_MV, 3600, 3700}
TempSamplesV1    == {0 - 40, TEMP_NOMINAL_C, 100}

NoTmCall ==
    [op |-> "none", v |-> 0, t |-> 0, prev |-> ZeroTamperContext,
     ret |-> TAMPER_EVENT_NONE]

InitTamper1State == tm_call = NoTmCall

Tamper1Frame ==
    UNCHANGED <<vtVars, arVars, b2Vars, fsVars, kfVars, trVars, ext3Vars, b1_pc,
                b1_boot_status,
                b1_results, g_boot_context, g_tz_initialized, g_puf_config,
                g_attestation_report, b1_report, b1_tamper>>

\* tamper_detection_start(&ctx): thresholds stored by acmp_init and iadc_init,
\* context zeroed, last samples set to the nominal values.
TamperDetectionStart ==
    /\ g_tamper_config' = [low_threshold       |-> VOLTAGE_THRESHOLD_LOW_MV,
                           high_threshold      |-> VOLTAGE_THRESHOLD_HIGH_MV,
                           temp_low_threshold  |-> ToU32(TEMP_THRESHOLD_LOW_C),
                           temp_high_threshold |-> ToU32(TEMP_THRESHOLD_HIGH_C)]
    /\ g_tamper_context' = [ZeroTamperContext EXCEPT
                               !.last_voltage_mv = VOLTAGE_NOMINAL_MV,
                               !.last_temp_c = TEMP_NOMINAL_C]
    /\ tm_call' = [NoTmCall EXCEPT !.op = "tamper_detection_start",
                                   !.prev = g_tamper_context]
    /\ Tamper1Frame

\* check_tamper_events(&ctx) reading the samples v and t.
CheckTamperEvents ==
    /\ g_tamper_context.event_count < MaxTamperEvents
    /\ \E v \in VoltageSamplesV1, t \in TempSamplesV1 :
          LET r == check_tamper_events_v1(g_tamper_context, g_tamper_config, v, t)
          IN /\ g_tamper_context' = r.ctx
             /\ tm_call' = [op |-> "check_tamper_events", v |-> v, t |-> t,
                            prev |-> g_tamper_context, ret |-> r.events]
    /\ UNCHANGED g_tamper_config
    /\ Tamper1Frame

(***************************************************************************)
(* Tamper responses: handle_tamper_event (second implementation) step by   *)
(* step, an interrupt handler's response nesting inside a running one, and *)
(* execute_tamper_response (first implementation).  Each activation keeps  *)
(* the list of the response actions it has performed.                      *)
(***************************************************************************)
KEY_STORAGE_WORDS == 256            \* erase_cryptographic_keys: i < 256
LOCK_MAGIC        == W(57005, 48879)   \* 0xDEADBEEF

EraseChunk == 64    \* key storage words written between two interrupt points

TamperEventNames ==
    {"TAMPER_VOLTAGE_LOW", "TAMPER_VOLTAGE_HIGH", "TAMPER_TEMP_LOW",
     "TAMPER_TEMP_HIGH", "TAMPER_GLITCH_DETECTED"}

\* Callers pass a mask other than TAMPER_NONE.
TamperMasks == (SUBSET TamperEventNames) \ {TAMPER_NONE}

\* The bits of an event_flags word of the first implementation, by name.
event_flag_names(event_flags) ==
    {n \in {"TAMPER_EVENT_VOLTAGE_LOW", "TAMPER_EVENT_VOLTAGE_HIGH",
            "TAMPER_EVENT_TEMP_LOW", "TAMPER_EVENT_TEMP_HIGH",
            "TAMPER_EVENT_GLITCH", "TAMPER_EVENT_CLOCK_ANOMALY"} :
        LET bit == CASE n = "TAMPER_EVENT_VOLTAGE_LOW"  -> TAMPER_EVENT_VOLTAGE_LOW
                     [] n = "TAMPER_EVENT_VOLTAGE_HIGH" -> TAMPER_EVENT_VOLTAGE_HIGH
                     [] n = "TAMPER_EVENT_TEMP_LOW"     -> TAMPER_EVENT_TEMP_LOW
                     [] n = "TAMPER_EVENT_TEMP_HIGH"    -> TAMPER_EVENT_TEMP_HIGH
                     [] n = "TAMPER_EVENT_GLITCH"       -> TAMPER_EVENT_GLITCH
                     [] OTHER                           -> TAMPER_EVENT_CLOCK_ANOMALY
        IN (event_flags \div bit) % 2 = 1}

\* Key storage holding keys, lock register clear, no reset requested.
InitResponseState ==
    /\ tr_frames = <<>>
    /\ tr_hw = [zeroed |-> 0, lock_reg |-> W(0, 0), reset |-> "none", halted |-> FALSE]

ResponseFrame ==
    UNCHANGED <<vtVars, arVars, b1Vars, fsVars, kfVars, tmVars, ext3Vars, b2_pc, b2_main,
                g_control_flow_token, g_tamper_monitoring_enabled, hw,
                g_measurements, b2_hist>>

\* The core is executing: not reset, not spinning in while (1).
Running == tr_hw.reset # "done" /\ ~tr_hw.halted

Top == tr_frames[Len(tr_frames)]
SetTop(frame) == [tr_frames EXCEPT ![Len(tr_frames)] = frame]

Min(a, b) == IF a < b THEN a ELSE b
Max(a, b) == IF a < b THEN b ELSE a

\* handle_tamper_event(tamper_events) entered, from the boot code or from
\* ACMP_IRQHandler / IADC_IRQHandler, which may interrupt the boot code's
\* response in progress:
\* the mask is logged and the actions are chosen.
HTE_Enter ==
    /\ Running
    \* the handlers keep the reset priority, so none preempts the other: at
    \* most the response of the boot code and one handler's inside it
    /\ Len(tr_frames) <= 1
    /\ tr_frames # <<>> => Top.fn = "handle_tamper_event" /\ Top.pc # "return"
    /\ \E tamper_events \in TamperMasks :
          /\ g_tamper_events' = tamper_events
          /\ tr_frames' = Append(tr_frames,
                [fn |-> "handle_tamper_event", events |-> tamper_events,
                 action |-> tamper_action(tamper_events), pc |-> "erase",
                 i |-> 0, log |-> <<>>])
    /\ UNCHANGED tr_hw
    /\ ResponseFrame

\* if (action & TAMPER_ACTION_LOCK) lock_device(), taken before the erasure
\* has run.
HTE_Lock_early ==
    /\ Running
    /\ tr_frames # <<>>
    /\ Top.fn = "handle_tamper_event"
    /\ Top.pc \in {"erase", "lock"}
    /\ IF "LOCK" \in Top.action
       THEN /\ tr_hw' = [tr_hw EXCEPT !.lock_reg = LOCK_MAGIC]
            /\ tr_frames' = SetTop([Top EXCEPT !.pc = "reset",
                                               !.log = Append(@, "LOCK")])
       ELSE /\ tr_frames' = SetTop([Top EXCEPT !.pc = "reset"])
            /\ UNCHANGED tr_hw
    /\ UNCHANGED g_tamper_events
    /\ ResponseFrame

\* if (action & TAMPER_ACTION_ERASE_KEYS) erase_cryptographic_keys(): the
\* loop clears the next words of key storage; after the last word the
\* erasure is complete.
HTE_EraseKeys ==
    /\ Running
    /\ tr_frames # <<>>
    /\ Top.fn = "handle_tamper_event"
    /\ Top.pc = "erase"
    /\ IF "ERASE_KEYS" \in Top.action
       THEN LET i == Min(Top.i + EraseChunk, KEY_STORAGE_WORDS)
            IN /\ tr_hw' = [tr_hw EXCEPT !.zeroed = Max(@, i)]
               /\ tr_frames' = SetTop(
                     IF i = KEY_STORAGE_WORDS
                     THEN [Top EXCEPT !.i = i, !.pc = "lock",
                                      !.log = Append(@, "ERASE_KEYS")]
                     ELSE [Top EXCEPT !.i = i])
       ELSE /\ tr_frames' = SetTop([Top EXCEPT !.pc = "lock"])
            /\ UNCHANGED tr_hw
    /\ UNCHANGED g_tamper_events
    /\ ResponseFrame

\* if (action & TAMPER_ACTION_LOCK) lock_device().
HTE_Lock ==
    /\ Running
    /\ tr_frames # <<>>
    /\ Top.fn = "handle_tamper_event"
    /\ Top.pc = "lock"
    /\ IF "LOCK" \in Top.action
       THEN /\ tr_hw' = [tr_hw EXCEPT !.lock_reg = LOCK_MAGIC]
            /\ tr_frames' = SetTop([Top EXCEPT !.pc = "reset",
                                               !.log = Append(@, "LOCK")])
       ELSE /\ tr_frames' = SetTop([Top EXCEPT !.pc = "reset"])
            /\ UNCHANGED tr_hw
    /\ UNCHANGED g_tamper_events
    /\ ResponseFrame

\* if (action & TAMPER_ACTION_RESET) reset_device(): SYSRESETREQ written;
\* reset_device does not wait for the reset.
HTE_Reset ==
    /\ Running
    /\ tr_frames # <<>>
    /\ Top.fn = "handle_tamper_event"
    /\ Top.pc = "reset"
    /\ IF "RESET" \in Top.action
       THEN /\ tr_hw' = [tr_hw EXCEPT !.reset = IF @ = "none" THEN "requested" ELSE @]
            /\ tr_frames' = SetTop([Top EXCEPT !.pc = "reset_issued",
                                               !.log = Append(@, "RESET")])
       ELSE /\ tr_frames' = SetTop([Top EXCEPT !.pc = "return"])
            /\ UNCHANGED tr_hw
    /\ UNCHANGED g_tamper_events
    /\ ResponseFrame

\* The reset requested through AIRCR takes effect: nothing runs after it.
SystemReset ==
    /\ Running
    /\ tr_hw.reset = "requested"
    /\ tr_hw' = [tr_hw EXCEPT !.reset = "done"]
    /\ UNCHANGED <<tr_frames, g_tamper_events>>
    /\ ResponseFrame

\* The request has not taken effect yet when reset_device returns: the end
\* of handle_tamper_event is reached.
HTE_AfterReset ==
    /\ Running
    /\ tr_frames # <<>>
    /\ Top.fn = "handle_tamper_event"
    /\ Top.pc = "reset_issued"
    /\ tr_frames' = SetTop([Top EXCEPT !.pc = "return"])
    /\ UNCHANGED <<tr_hw, g_tamper_events>>
    /\ ResponseFrame

\* The response returns to its caller (or to the code it interrupted).
ResponseReturn ==
    /\ Running
    /\ tr_frames # <<>>
    /\ Top.pc = "return"
    /\ tr_frames' = SubSeq(tr_frames, 1, Len(tr_frames) - 1)
    /\ UNCHANGED <<tr_hw, g_tamper_events>>
    /\ ResponseFrame

\* execute_tamper_response(event_flags) of the first implementation: every
\* branch is empty; GLITCH or CLOCK_ANOMALY ends in while (1).
ExecuteTamperResponse ==
    /\ Running
    /\ tr_frames = <<>>
    /\ \E event_flags \in 1 .. 63 :
          LET halts == execute_tamper_response_halts(event_flags)
          IN /\ tr_frames' = <<[fn |-> "execute_tamper_response",
                                events |-> event_flag_names(event_flags),
                                action |-> {},
                                pc |-> IF halts THEN "halted" ELSE "return",
                                i |-> 0,
                                log |-> IF halts THEN <<"HALT">> ELSE <<>>]>>
             /\ tr_hw' = [tr_hw EXCEPT !.halted = halts]
    /\ UNCHANGED g_tamper_events
    /\ ResponseFrame

(***************************************************************************)
(* Attestation: the report and its two logs (attestation.c of the first    *)
(* implementation), record_measurement of the second.                      *)
(***************************************************************************)
ATTESTATION_VERSION        == 1
ATTESTATION_SIGNATURE_SIZE == 64
NONCE_SIZE                 == 16

NullPtr == 0 - 1        \* a NULL argument, where the argument is a small tag

\* Nonces, measurements and descriptions by tag; 0 is the all-zero buffer.
Nonces       == {NullPtr, 1, 2}
Measurements == {NullPtr, 1}
ComponentIds == {1}
EventTypes   == {1}
Descriptions == {1}

\* memset(&g_attestation_report, 0, ..); version = ATTESTATION_VERSION.
ZeroReport ==
    [version |-> 0, nonce |-> 0, boot_count |-> 0, firmware_version |-> W(0, 0),
     measurements |-> <<>>, events |-> <<>>, tamper_events |-> 0,
     security_status |-> W(0, 0), uptime |-> 0,
     signature |-> Zeros(ATTESTATION_SIGNATURE_SIZE)]

attestation_init(initialized, report) ==
    IF initialized THEN [ok |-> TRUE, initialized |-> TRUE, report |-> report]
    ELSE [ok |-> TRUE, initialized |-> TRUE,
          report |-> [ZeroReport EXCEPT !.version = ATTESTATION_VERSION]]

\* add_boot_measurement refusing only a log that is over its capacity.
add_boot_measurement_log_gt(initialized, report, component_id, measurement, type) ==
    IF ~initialized THEN [ok |-> FALSE, report |-> report]
    ELSE IF Len(report.measurements) > MAX_MEASUREMENT_COUNT
         THEN [ok |-> FALSE, report |-> report]
    ELSE IF measurement = NullPtr THEN [ok |-> FALSE, report |-> report]
    ELSE [ok |-> TRUE,
          report |-> [report EXCEPT !.measurements =
                         Append(@, [component_id |-> component_id,
                                    measurement |-> measurement,
                                    measurement_type |-> type])]]

\* add_boot_measurement on the whole report: measurement_count is the length
\* of the log.
add_boot_measurement_log(initialized, report, component_id, measurement, type) ==
    IF ~initialized THEN [ok |-> FALSE, report |-> report]
    ELSE IF Len(report.measurements) >= MAX_MEASUREMENT_COUNT
         THEN [ok |-> FALSE, report |-> report]
    ELSE IF measurement = NullPtr THEN [ok |-> FALSE, report |-> report]
    ELSE [ok |-> TRUE,
          report |-> [report EXCEPT !.measurements =
                         Append(@, [component_id |-> component_id,
                                    measurement |-> measurement,
                                    measurement_type |-> type])]]

\* add_event_log_entry: a NULL description is stored as the empty string (0).
add_event_log_entry_log(initialized, report, event_type, event_data, description) ==
    IF ~initialized THEN [ok |-> FALSE, report |-> report]
    ELSE IF Len(report.events) >= MAX_EVENT_LOG_ENTRIES
         THEN [ok |-> FALSE, report |-> report]
    ELSE [ok |-> TRUE,
          report |-> [report EXCEPT !.events =
                         Append(@, [event_type |-> event_type,
                                    event_data |-> event_data,
                                    timestamp |-> 0,
                                    description |-> IF description = NullPtr THEN 0
                                                    ELSE description])]]

\* The attestation text of the second implementation as the caller holds it:
\* the length returned, the member names present, the measurement entries
\* (measurement 0: the hash recorded, 1: other hexadecimal text), the entries
\* the signature was computed over and whether its text was altered since.
NoBuffer ==
    [len |-> 0, version |-> FALSE, measurements |-> FALSE, entries |-> <<>>,
     signature |-> FALSE, signed |-> <<>>, flipped |-> FALSE]

NoAtCall == [op |-> "none", ret |-> FALSE, nonce |-> NullPtr]

InitAttestationState ==
    /\ at_report = ZeroReport
    /\ at_initialized = FALSE
    /\ at_out = [report |-> ZeroReport, json |-> <<>>, cbor |-> <<>>,
                 buffer |-> NoBuffer]
    /\ at_call = NoAtCall

\* What the attestation actions of the first implementation leave alone.
At1Frame ==
    UNCHANGED <<vtVars, arVars, b1Vars, b2Vars, fsVars, kfVars, tmVars, trVars,
                drvVars, ext4Vars>>

AttestationInit ==
    /\ LET r == attestation_init(at_initialized, at_report)
       IN /\ at_initialized' = r.initialized
          /\ at_report' = r.report
          /\ at_call' = [NoAtCall EXCEPT !.op = "attestation_init", !.ret = r.ok]
    /\ UNCHANGED at_out
    /\ At1Frame

AddBootMeasurement ==
    /\ \E component_id \in ComponentIds, measurement \in Measurements :
          LET r == add_boot_measurement_log(at_initialized, at_report, component_id,
                                        measurement, 1)
          IN /\ at_report' = r.report
             /\ at_call' = [NoAtCall EXCEPT !.op = "add_boot_measurement",
                                            !.ret = r.ok]
    /\ UNCHANGED <<at_initialized, at_out>>
    /\ At1Frame

AddEventLogEntry ==
    /\ \E event_type \in EventTypes, description \in Descriptions :
          LET r == add_event_log_entry_log(at_initialized, at_report, event_type,
                                       0, description)
          IN /\ at_report' = r.report
             /\ at_call' = [NoAtCall EXCEPT !.op = "add_event_log_entry",
                                            !.ret = r.ok]
    /\ UNCHANGED <<at_initialized, at_out>>
    /\ At1Frame

\* attestation_init of the second implementation: the log is cleared.
AttestationInit2 ==
    /\ g_measurements' = <<>>
    /\ at_call' = [NoAtCall EXCEPT !.op = "attestation_init_2", !.ret = TRUE]
    /\ UNCHANGED <<vtVars, arVars, b1Vars, fsVars, kfVars, tmVars, trVars,
                   drvVars, ext4Vars, at_report, at_initialized, at_out, b2_pc, b2_main,
                   g_control_flow_token, g_tamper_events,
                   g_tamper_monitoring_enabled, hw, b2_hist>>

\* record_measurement(stage, data, length) of the second implementation.
RecordMeasurement ==
    /\ \E stage \in {"bootloader"}, data \in {NullPtr, 1} :
          LET ok == data # NullPtr /\ Len(g_measurements) < MAX_MEASUREMENTS
          IN /\ g_measurements' = IF data = NullPtr THEN g_measurements
                                  ELSE record_measurement(g_measurements, stage)
             /\ at_call' = [NoAtCall EXCEPT !.op = "record_measurement",
                                            !.ret = ok]
    /\ UNCHANGED <<vtVars, arVars, b1Vars, fsVars, kfVars, tmVars, trVars,
                   drvVars, ext4Vars, at_report, at_initialized, at_out, b2_pc, b2_main,
                   g_control_flow_token, g_tamper_events,
                   g_tamper_monitoring_enabled, hw, b2_hist>>

(***************************************************************************)
(* Attestation of the first implementation: report generation, signing and *)
(* the two exports.  Text is kept as the sequence of characters printed    *)
(* for each value (digits by their value), CBOR as the bytes written.      *)
(***************************************************************************)
MaxBootCount == 2   \* reports generated in one run
MaxLogged    == 2   \* entries appended to each log before reports are made

\* generate_attestation_report(nonce, report); report is NullPtr or the
\* caller's structure out.
generate_attestation_report(initialized, g_report, nonce, report, out) ==
    IF ~initialized \/ report = NullPtr
    THEN [ok |-> FALSE, g_report |-> g_report, out |-> out]
    ELSE LET r == [g_report EXCEPT
                      !.nonce = IF nonce # NullPtr THEN nonce ELSE @,
                      !.boot_count = @ + 1,
                      !.uptime = 0]
         IN [ok |-> TRUE, g_report |-> r, out |-> r]

\* sign_attestation_report: the placeholder signature, zero-filled.
placeholder_sig ==
    [i \in 0 .. ATTESTATION_SIGNATURE_SIZE - 1 |->
        CASE i = 0 -> 222 [] i = 1 -> 173 [] i = 2 -> 190 [] i = 3 -> 239
          [] i = 4 -> 202 [] i = 5 -> 254 [] i = 6 -> 186 [] i = 7 -> 190
          [] OTHER -> 0]

sign_attestation_report(report) == [report EXCEPT !.signature = placeholder_sig]

\* "%u": the decimal digits of n.
RECURSIVE Digits(_)
Digits(n) == IF n < 10 THEN <<n>> ELSE Append(Digits(n \div 10), n % 10)

\* "0x%08X": eight hexadecimal digits of a word.
Hex8(w) ==
    <<w[1] \div 4096, (w[1] \div 256) % 16, (w[1] \div 16) % 16, w[1] % 16,
      w[2] \div 4096, (w[2] \div 256) % 16, (w[2] \div 16) % 16, w[2] % 16>>

\* "%02X" for each byte of a buffer.
HexBytes(bytes, n) ==
    [k \in 1 .. 2 * n |-> IF k % 2 = 1 THEN bytes[(k - 1) \div 2] \div 16
                          ELSE bytes[(k - 1) \div 2] % 16]

\* export_report_json: the members written, in order, each with the kind of
\* JSON value and the characters printed for it.
export_report_json(report) ==
    << [key |-> "version", kind |-> "number", text |-> Digits(report.version)],
       [key |-> "boot_count", kind |-> "number", text |-> Digits(report.boot_count)],
       [key |-> "firmware_version", kind |-> "hex", text |-> Hex8(report.firmware_version)],
       [key |-> "security_status", kind |-> "hex", text |-> Hex8(report.security_status)],
       [key |-> "tamper_events", kind |-> "number", text |-> Digits(report.tamper_events)],
       [key |-> "uptime", kind |-> "number", text |-> Digits(report.uptime)],
       [key |-> "measurements", kind |-> "array",
        text |-> [k \in DOMAIN report.measurements |->
                     [component_id |-> Digits(report.measurements[k].component_id),
                      measurement  |-> report.measurements[k].measurement,
                      type |-> Digits(report.measurements[k].measurement_type)]]],
       [key |-> "events", kind |-> "array",
        text |-> [k \in DOMAIN report.events |->
                     [type |-> Digits(report.events[k].event_type),
                      data |-> Digits(report.events[k].event_data),
                      timestamp |-> Digits(report.events[k].timestamp),
                      description |-> report.events[k].description]]],
       [key |-> "signature", kind |-> "hexbytes",
        text |-> HexBytes(report.signature, ATTESTATION_SIGNATURE_SIZE)] >>

\* The four bytes of a 32-bit value, most significant first.
Bytes4(w) == <<w[1] \div 256, w[1] % 256, w[2] \div 256, w[2] % 256>>

\* export_report_cbor: the bytes written.
export_report_cbor(report) ==
    <<168, 1, 24, report.version % 256, 2, 26>> \o Bytes4(ToU32(report.boot_count))
    \o <<3, 26>> \o Bytes4(report.firmware_version)

\* The appends while the logs are short, for the runs that make reports.
AddBootMeasurementSome ==
    /\ Len(at_report.measurements) < MaxLogged
    /\ AddBootMeasurement

AddEventLogEntrySome ==
    /\ Len(at_report.events) < MaxLogged
    /\ AddEventLogEntry

GenerateAttestationReport ==
    /\ at_report.boot_count < MaxBootCount
    /\ \E nonce \in Nonces, report \in {NullPtr, 1} :
          LET r == generate_attestation_report(at_initialized, at_report, nonce,
                                               report, at_out.report)
          IN /\ at_report' = r.g_report
             /\ at_out' = [at_out EXCEPT !.report = r.out]
             /\ at_call' = [op |-> "generate_attestation_report", ret |-> r.ok,
                            nonce |-> nonce]
    /\ UNCHANGED at_initialized
    /\ At1Frame

\* sign_attestation_report(&report) on the caller's report.
SignAttestationReport ==
    /\ at_out' = [at_out EXCEPT !.report = sign_attestation_report(@)]
    /\ at_call' = [NoAtCall EXCEPT !.op = "sign_attestation_report", !.ret = TRUE]
    /\ UNCHANGED <<at_report, at_initialized>>
    /\ At1Frame

\* export_report_json(&report, json_buffer, buffer_size): nothing is written
\* into a buffer of size 0.
ExportReportJson ==
    /\ \E buffer_size \in {0, 4096} :
          /\ at_out' = IF buffer_size = 0 THEN at_out
                       ELSE [at_out EXCEPT !.json = export_report_json(at_out.report)]
          /\ at_call' = [NoAtCall EXCEPT !.op = "export_report_json",
                                         !.ret = buffer_size # 0]
    /\ UNCHANGED <<at_report, at_initialized>>
    /\ At1Frame

ExportReportCbor ==
    /\ \E buffer_size \in {0, 4096} :
          /\ at_out' = IF buffer_size = 0 THEN at_out
                       ELSE [at_out EXCEPT !.cbor = export_report_cbor(at_out.report)]
          /\ at_call' = [NoAtCall EXCEPT !.op = "export_report_cbor",
                                         !.ret = buffer_size # 0]
    /\ UNCHANGED <<at_report, at_initialized>>
    /\ At1Frame

(***************************************************************************)
(* Attestation of the second implementation: the signed text and its       *)
(* verification.                                                           *)
(***************************************************************************)
ATTESTATION_BUFFER_SIZE == 2048

\* generate_attestation_report(buffer, buffer_size): the header and the
\* entries are printed before puf_derive_key is called; the signature covers
\* the text printed so far.
generate_attestation_report_2(buffer, buffer_size, measurements, ready_at) ==
    LET entries == [k \in DOMAIN measurements |->
                       [stage |-> measurements[k], measurement |-> 0]]
        text == [len |-> 0, version |-> TRUE, measurements |-> TRUE,
                 entries |-> entries, signature |-> FALSE, signed |-> <<>>,
                 flipped |-> FALSE]
    IN IF buffer_size < ATTESTATION_BUFFER_SIZE THEN [buffer EXCEPT !.len = 0]
       ELSE IF wait_loop(100000, ready_at) = W(0, 0) THEN text
       ELSE [text EXCEPT !.len = report_length(measurements),
                         !.signature = TRUE, !.signed = entries]

\* verify_attestation(attestation, attestation_len).
verify_attestation(attestation, attestation_len) ==
    /\ attestation_len # 0
    /\ attestation_len >= 100
    /\ attestation.version
    /\ attestation.measurements
    /\ attestation.signature

At2Frame ==
    UNCHANGED <<vtVars, arVars, b1Vars, b2Vars, fsVars, kfVars, tmVars, trVars,
                drvVars, ext4Vars, at_report, at_initialized>>

RecordMeasurementSome ==
    /\ Len(g_measurements) < MaxLogged
    /\ RecordMeasurement

GenerateAttestationReport2 ==
    /\ \E buffer_size \in {0, ATTESTATION_BUFFER_SIZE}, ready_at \in ReadyAt(100000) :
          LET b == generate_attestation_report_2(at_out.buffer, buffer_size,
                                                 g_measurements, ready_at)
          IN /\ at_out' = [at_out EXCEPT !.buffer = b]
             /\ at_call' = [NoAtCall EXCEPT !.op = "generate_attestation_report_2",
                                            !.ret = b.len # 0]
    /\ At2Frame

\* The text on its way to the verifier: one measurement's hexadecimal text
\* is replaced by other digits, or the signature's text is.
AlterMeasurementText ==
    /\ at_out.buffer.len # 0
    /\ \E k \in DOMAIN at_out.buffer.entries :
          /\ at_out.buffer.entries[k].measurement = 0
          /\ at_out' = [at_out EXCEPT !.buffer.entries[k].measurement = 1]
    /\ at_call' = NoAtCall
    /\ At2Frame

AlterSignatureText ==
    /\ at_out.buffer.len # 0
    /\ ~at_out.buffer.flipped
    /\ at_out' = [at_out EXCEPT !.buffer.flipped = TRUE]
    /\ at_call' = NoAtCall
    /\ At2Frame

VerifyAttestation ==
    /\ at_call' = [NoAtCall EXCEPT !.op = "verify_attestation",
                      !.ret = verify_attestation(at_out.buffer, at_out.buffer.len)]
    /\ UNCHANGED at_out
    /\ At2Frame

(***************************************************************************)
(* The OTP ledger, the TRNG and the PUF of the second implementation,      *)
(* called on their own.                                                    *)
(***************************************************************************)
MaxOtpCounter == 4      \* the counter is raised while below this value
FirmwareVersions == {W(0, 1), W(0, 3)}
PUF_KEY_SIZE_2 == 32

\* otp_counter_init: an erased counter word is written to 0.
otp_counter_init(hwr, ready_at) ==
    IF hwr.OTP_COUNTER = MAX_ROLLBACK_COUNTER THEN otp_write(hwr, W(0, 0), ready_at)
    ELSE [ok |-> TRUE, hw |-> hwr]

otp_increment_counter(hwr, ready_at) ==
    IF ~ULess(hwr.OTP_COUNTER, MAX_ROLLBACK_COUNTER) THEN [ok |-> FALSE, hw |-> hwr]
    ELSE otp_write(hwr, WInc(hwr.OTP_COUNTER), ready_at)

\* The loop of verify_no_rollback; ready[k] is the readiness seen by the k-th
\* write.
RECURSIVE increment_loop(_, _, _)
increment_loop(hwr, increments, ready) ==
    IF increments = 0 THEN [ok |-> TRUE, hw |-> hwr]
    ELSE LET w == otp_increment_counter(hwr, Head(ready))
         IN IF ~w.ok THEN [ok |-> FALSE, hw |-> w.hw]
            ELSE increment_loop(w.hw, increments - 1, Tail(ready))

\* Mutant: a version equal to the counter is refused as well.
verify_no_rollback_le(hwr, firmware_version, ready) ==
    LET stored_version == hwr.OTP_COUNTER
    IN IF ~ULess(stored_version, firmware_version) THEN [ok |-> FALSE, hw |-> hwr]
       ELSE increment_loop(hwr, firmware_version[2] - stored_version[2], ready)

verify_no_rollback(hwr, firmware_version, ready) ==
    LET stored_version == hwr.OTP_COUNTER
    IN IF ULess(firmware_version, stored_version) THEN [ok |-> FALSE, hw |-> hwr]
       ELSE IF ULess(stored_version, firmware_version)
            THEN increment_loop(hwr, firmware_version[2] - stored_version[2], ready)
            ELSE [ok |-> TRUE, hw |-> hwr]

\* otp_lock_counter: the lock word is written, then the lock bit of the
\* status register is set.
otp_lock_counter(hwr, ready_at) ==
    IF hwr.OTP_LOCKED THEN [ok |-> FALSE, hw |-> hwr]
    ELSE LET result == ULess(W(0, 0), wait_loop(100000, ready_at))
         IN [ok |-> result,
             hw |-> IF result THEN [hwr EXCEPT !.OTP_LOCKED = TRUE] ELSE hwr]

\* trng_generate(buffer, length) for one word.
trng_generate(buffer, length, ready_at) ==
    IF buffer = NullPtr \/ length = 0 THEN FALSE
    ELSE wait_loop(10000, ready_at) # W(0, 0)

\* puf_derive_key(key, key_size) of crypto_primitives.c.
puf_derive_key_2(key, key_size, ready_at) ==
    IF key = NullPtr \/ key_size = 0 \/ key_size > PUF_KEY_SIZE_2 THEN FALSE
    ELSE wait_loop(100000, ready_at) # W(0, 0)

NoDrvCall == [op |-> "none", ret |-> FALSE, arg |-> W(0, 0), ready_at |-> 0]

InitDriverState == drv_call = NoDrvCall

DrvFrame ==
    UNCHANGED <<vtVars, arVars, b1Vars, fsVars, kfVars, tmVars, trVars, atVars,
                ext4Vars, b2_pc, b2_main, g_control_flow_token, g_tamper_events,
                g_tamper_monitoring_enabled, g_measurements, b2_hist>>

\* The counter stays small in the runs explored.
CounterLow == hw.OTP_COUNTER = MAX_ROLLBACK_COUNTER
              \/ ULess(hw.OTP_COUNTER, W(0, MaxOtpCounter))

OtpWrite ==
    /\ \E value \in {W(0, 0), W(0, 2)}, ready_at \in ReadyAt(100000) :
          LET r == otp_write(hw, value, ready_at)
          IN /\ hw' = r.hw
             /\ drv_call' = [op |-> "otp_write", ret |-> r.ok, arg |-> value,
                             ready_at |-> ready_at]
    /\ DrvFrame

OtpCounterInit ==
    /\ \E ready_at \in ReadyAt(100000) :
          LET r == otp_counter_init(hw, ready_at)
          IN /\ hw' = r.hw
             /\ drv_call' = [op |-> "otp_counter_init", ret |-> r.ok,
                             arg |-> W(0, 0), ready_at |-> ready_at]
    /\ DrvFrame

OtpIncrementCounter ==
    /\ CounterLow
    /\ \E ready_at \in ReadyAt(100000) :
          LET r == otp_increment_counter(hw, ready_at)
          IN /\ hw' = r.hw
             /\ drv_call' = [op |-> "otp_increment_counter", ret |-> r.ok,
                             arg |-> W(0, 0), ready_at |-> ready_at]
    /\ DrvFrame

VerifyNoRollback ==
    /\ CounterLow
    /\ \E firmware_version \in FirmwareVersions,
          ready \in [1 .. 3 -> ReadyAt(100000)] :
          LET r == verify_no_rollback(hw, firmware_version, ready)
          IN /\ hw' = r.hw
             /\ drv_call' = [op |-> "verify_no_rollback", ret |-> r.ok,
                             arg |-> firmware_version, ready_at |-> ready[1],
                             all_ready |-> \A k \in 1 .. 3 : ready[k] = 1]
    /\ DrvFrame

OtpLockCounter ==
    /\ \E ready_at \in ReadyAt(100000) :
          LET r == otp_lock_counter(hw, ready_at)
          IN /\ hw' = r.hw
             /\ drv_call' = [op |-> "otp_lock_counter", ret |-> r.ok,
                             arg |-> W(0, 0), ready_at |-> ready_at]
    /\ DrvFrame

TrngGenerate ==
    /\ \E buffer \in {NullPtr, 1}, length \in {0, 4}, ready_at \in ReadyAt(10000) :
          drv_call' = [op |-> "trng_generate",
                       ret |-> trng_generate(buffer, length, ready_at),
                       arg |-> W(0, length), ready_at |-> ready_at]
    /\ UNCHANGED hw
    /\ DrvFrame

PufDeriveKey2 ==
    /\ \E key \in {NullPtr, 1}, key_size \in {0, PUF_KEY_SIZE_2, PUF_KEY_SIZE_2 + 1},
          ready_at \in ReadyAt(100000) :
          drv_call' = [op |-> "puf_derive_key",
                       ret |-> puf_derive_key_2(key, key_size, ready_at),
                       arg |-> W(0, key_size), ready_at |-> ready_at]
    /\ UNCHANGED hw
    /\ DrvFrame

(***************************************************************************)
(* verify_layered_tokens under transient faults: a fault inverts the       *)
(* outcome of one comparison, every other step executes normally.          *)
(***************************************************************************)
MaxGlitches == 4        \* comparisons inverted in one call

\* The comparisons of verify_layered_tokens, in program order: 1 layer 1,
\* 2 the redundant check of layer 1, 3 layer 2, 4 and 5 the redundant check of
\* layer 2, 6 layer 3, 7 layer 4, 8 and 9 the final test of
\* verification_result and state, 10 to 13 the final token comparisons.
Comparisons == 1 .. 13

\* The outcome of comparison k as the branch sees it.
Outcome(glitched, k, value) == IF k \in glitched THEN ~value ELSE value

\* Mutant: no final comparison of the tokens themselves.
verify_layered_tokens_glitched_norecheck(tokens, glitched) ==
    IF ~Outcome(glitched, 1, tokens[1] = TOKEN_LAYER_1) THEN TOKEN_STATE_INVALID ELSE
    IF Outcome(glitched, 2, FALSE) THEN TOKEN_STATE_INVALID ELSE
    IF ~Outcome(glitched, 3, tokens[2] = TOKEN_LAYER_2) THEN TOKEN_STATE_INVALID ELSE
    IF Outcome(glitched, 4, FALSE) /\ Outcome(glitched, 5, FALSE)
    THEN TOKEN_STATE_INVALID ELSE
    IF ~Outcome(glitched, 6, tokens[3] = TOKEN_LAYER_3) THEN TOKEN_STATE_INVALID ELSE
    IF ~Outcome(glitched, 7, tokens[4] = TOKEN_LAYER_4) THEN TOKEN_STATE_INVALID ELSE
    IF Outcome(glitched, 8, TRUE) /\ Outcome(glitched, 9, TRUE)
    THEN TOKEN_STATE_ALL_VALID
    ELSE TOKEN_STATE_INVALID

\* verify_layered_tokens with the comparisons in glitched inverted.  A layer
\* branch that is taken sets state and its bit of verification_result,
\* whatever the token.
verify_layered_tokens_glitched(tokens, glitched) ==
    LET failed == TOKEN_STATE_INVALID IN
    IF ~Outcome(glitched, 1, tokens[1] = TOKEN_LAYER_1) THEN failed ELSE
    LET state1 == TOKEN_STATE_LAYER1_OK
        vr1    == Or32(W(0, 0), W(0, 1)) IN
    IF Outcome(glitched, 2, state1 # TOKEN_STATE_LAYER1_OK) THEN failed ELSE
    IF ~Outcome(glitched, 3, tokens[2] = TOKEN_LAYER_2) THEN failed ELSE
    LET state2 == TOKEN_STATE_LAYER2_OK
        vr2    == Or32(vr1, W(0, 2)) IN
    IF /\ Outcome(glitched, 4, Xor32(state2, TOKEN_STATE_LAYER2_OK) # W(0, 0))
       /\ Outcome(glitched, 5, state2 # TOKEN_STATE_LAYER2_OK)
    THEN failed ELSE
    IF ~Outcome(glitched, 6, tokens[3] = TOKEN_LAYER_3) THEN failed ELSE
    LET vr3 == Or32(vr2, W(0, 4)) IN
    IF ~Outcome(glitched, 7, tokens[4] = TOKEN_LAYER_4) THEN failed ELSE
    LET state4 == TOKEN_STATE_LAYER4_OK
        vr4    == Or32(vr3, W(0, 8)) IN
    IF /\ Outcome(glitched, 8, vr4 = W(0, 15))
       /\ Outcome(glitched, 9, state4 = TOKEN_STATE_LAYER4_OK)
    THEN IF /\ Outcome(glitched, 10, tokens[1] = TOKEN_LAYER_1)
            /\ Outcome(glitched, 11, tokens[2] = TOKEN_LAYER_2)
            /\ Outcome(glitched, 12, tokens[3] = TOKEN_LAYER_3)
            /\ Outcome(glitched, 13, tokens[4] = TOKEN_LAYER_4)
         THEN TOKEN_STATE_ALL_VALID
         ELSE failed
    ELSE failed

\* The tokens secure_boot_init stores (lines 221-224).
layer_tokens ==
    [i \in 1..4 |-> CASE i = 1 -> TOKEN_LAYER_1 [] i = 2 -> TOKEN_LAYER_2
                      [] i = 3 -> TOKEN_LAYER_3 [] OTHER -> TOKEN_LAYER_4]

InitGlitchState == gf_glitched = {}

\* main has not called check_tamper_events yet.
NoTamperCall == [events |-> {}, loaded |-> {}, irq_before |-> {}, returned |-> FALSE]

InitTamperCallState == cte_frame = NoTamperCall

InitBootHistoryState == bc_history = <<>>

\* No writer has been called.
NoExCall == [op |-> "none", buffer_size |-> 0, length |-> 0, stored |-> 0,
             count |-> 0, report |-> [digits |-> 1, measurements |-> 0, events |-> 0,
                                      description |-> 0, stage |-> "bootloader"]]

InitExportState == ex_call = NoExCall

\* control_flow_check has not been called.
NoCfCall == [token |-> NoWord, expected |-> NoWord, ret |-> NoWord,
             handled |-> FALSE, events |-> {}, actions |-> {}, keys_erased |-> FALSE]

InitControlFlowState == cf_call = NoCfCall

InitExt7 == InitExportState /\ InitControlFlowState

InitExt6 == InitBootHistoryState /\ InitExt7

InitExt5 == InitTamperCallState /\ InitExt6

InitExt4 == InitGlitchState /\ InitExt5

\* The sets of at most MaxGlitches comparisons: the inverted ones are added
\* to a smaller set one at a time.
RECURSIVE GlitchSets(_)
GlitchSets(n) ==
    IF n = 0 THEN {{}}
    ELSE LET smaller == GlitchSets(n - 1)
         IN smaller \cup {g \cup {k} : g \in smaller, k \in Comparisons}

\* verify_layered_tokens(context) called while faults are injected.
CallVerifyLayeredTokensGlitched ==
    /\ vt_pc = "idle"
    /\ \E glitched \in GlitchSets(MaxGlitches) :
          /\ gf_glitched' = glitched
          /\ vt_ret' = verify_layered_tokens_glitched(verification_tokens, glitched)
    /\ vt_pc' = "returned"
    /\ UNCHANGED verification_tokens
    /\ UNCHANGED <<arVars, b1Vars, b2Vars, fsVars, kfVars, tmVars, trVars, atVars,
                   drvVars, ext5Vars>>

\* The caller takes the result of the faulted call.
ReturnFromGlitchedVerify ==
    /\ ReturnFromVerify
    /\ gf_glitched' = {}
    /\ UNCHANGED <<arVars, b1Vars, b2Vars, fsVars, kfVars, tmVars, trVars, atVars,
                   drvVars, ext5Vars>>

(***************************************************************************)
(* check_anti_rollback called on packed candidate versions                 *)
(***************************************************************************)
\* Packed versions (major << 24 | minor << 16 | patch) with small components.
PackedVersions ==
    {W(major * 256 + minor, patch) : major \in 0..MaxVer, minor \in 0..MaxVer,
                                     patch \in 0..MaxVer}

CheckAntiRollback ==
    /\ \E new_version \in PackedVersions :
          /\ ar_arg' = unpack_version(new_version)
          /\ ar_ret' = check_anti_rollback(g_anti_rollback_initialized,
                                           g_otp_version, new_version)
    /\ ar_op' = "check_anti_rollback"
    /\ ar_prev' = g_otp_version
    /\ ar_prev_init' = g_anti_rollback_initialized
    /\ UNCHANGED <<g_anti_rollback_initialized, g_otp_version, g_otp_counters>>
    /\ UNCHANGED <<vtVars, b1Vars, b2Vars, extVars>>

(***************************************************************************)
(* Specifications                                                          *)
(***************************************************************************)
\* The component models at rest: one header, nothing called.
IdleSignature ==
    InitSignatureState({[magic |-> fw_header.magic, image_size |-> fw_header.image_size,
                         signature |-> 0]}, {0})

InitExt2 ==
    /\ InitTamper1State /\ InitResponseState /\ InitAttestationState
    /\ InitDriverState
    /\ InitExt4

InitExt == IdleSignature /\ InitKeyFabricState /\ InitExt2

\* The two boot sequences at rest.
IdleBoots ==
    IdleTokens /\ InitRollback /\ InitBoot1State /\ InitBoot2State({NominalHw})

\* The layered verifier on arbitrary contexts.
InitVerifier ==
    InitTokens /\ InitRollback /\ InitBoot1State /\ InitBoot2State({NominalHw})
    /\ InitExt

NextVerifier ==
    \/ (SetLayerTokens /\ UNCHANGED <<arVars, b1Vars, b2Vars, extVars>>)
    \/ (CorruptToken /\ UNCHANGED <<arVars, b1Vars, b2Vars, extVars>>)
    \/ (CallVerifyLayeredTokens /\ UNCHANGED <<arVars, b1Vars, b2Vars, extVars>>)
    \/ (ReturnFromVerify /\ UNCHANGED <<arVars, b1Vars, b2Vars, extVars>>)

SpecVerifier == InitVerifier /\ [][NextVerifier]_vars

\* verify_layered_tokens on every context, under every set of at most
\* MaxGlitches inverted comparisons.
InitGlitch ==
    /\ verification_tokens \in
          [1..4 -> {TOKEN_LAYER_1, TOKEN_LAYER_2, TOKEN_LAYER_3, TOKEN_LAYER_4,
                    CorruptWord}]
    /\ \A i \in 1..4 : verification_tokens[i] \in {layer_tokens[i], CorruptWord}
    /\ vt_pc = "idle"
    /\ vt_ret = NoWord
    /\ InitRollback /\ InitBoot1State /\ InitBoot2State({NominalHw})
    /\ InitExt

NextGlitch ==
    \/ CallVerifyLayeredTokensGlitched
    \/ ReturnFromGlitchedVerify

SpecGlitch == InitGlitch /\ [][NextGlitch]_vars

\* The anti-rollback store under any sequence of its operations.
InitStore ==
    IdleTokens /\ InitRollback /\ InitBoot1State /\ InitBoot2State({NominalHw})
    /\ InitExt

NextStore ==
    \/ (AntiRollbackInit /\ UNCHANGED <<vtVars, b1Vars, b2Vars, extVars>>)
    \/ (WriteOtpVersion /\ UNCHANGED <<vtVars, b1Vars, b2Vars, extVars>>)
    \/ (CheckVersionRollback /\ UNCHANGED <<vtVars, b1Vars, b2Vars, extVars>>)
    \/ (IncrementOtpCounter /\ UNCHANGED <<vtVars, b1Vars, b2Vars, extVars>>)

SpecStore == InitStore /\ [][NextStore]_vars

\* The store with check_anti_rollback among its callers.
NextRollbackCheck ==
    \/ (AntiRollbackInit /\ UNCHANGED <<vtVars, b1Vars, b2Vars, extVars>>)
    \/ (WriteOtpVersion /\ UNCHANGED <<vtVars, b1Vars, b2Vars, extVars>>)
    \/ CheckAntiRollback

SpecRollbackCheck == InitStore /\ [][NextRollbackCheck]_vars

\* The first boot sequence: provisioning calls, then main of example_config.c.
InitBoot1 ==
    IdleTokens /\ InitRollback /\ InitBoot1State /\ InitBoot2State({NominalHw})
    /\ InitExt

NextBoot1 ==
    \/ ProvisionAntiRollbackInit
    \/ ProvisionWriteOtpVersion
    \/ Main1_TrustzoneInit
    \/ Main1_PufInit
    \/ Main1_PufEnroll
    \/ Main1_TamperDetectionStart
    \/ Main1_AttestationInit
    \/ ESB_SecureBootInit
    \/ ESB_CorruptToken
    \/ ESB_VerifyLayeredTokens
    \/ ESB_VerifyFirmwareSignature
    \/ ESB_CheckAntiRollback
    \/ Main1_AfterBoot

SpecBoot1 == InitBoot1 /\ [][NextBoot1]_vars


\* The second boot sequence under sensor changes and interrupts.
InitBoot2 ==
    IdleTokens /\ InitRollback /\ InitBoot1State /\ InitBoot2State(PowerOnHw)
    /\ InitExt

NextBoot2 ==
    \/ EnvVoltage
    \/ EnvGlitch
    \/ EnvTemperature
    \/ ACMP_IRQHandler
    \/ IADC_IRQHandler
    \/ SBI_Begin
    \/ SBI_TrngPufInit
    \/ SBI_TamperOtpAttestationInit
    \/ SBI_VerifyRootOfTrust
    \/ SBI_CheckTamperEvents
    \/ SBI_EnableTamperMonitoring
    \/ Main_Stage2_VerifyRootOfTrust
    \/ Main_Stage4_VerifyNoRollback
    \/ Main_Stage4_OtpIncrementCounter
    \/ Main_Stage5_ControlFlowCheck
    \/ Main_Stage7_GenerateAttestationReport
    \/ Main_Stage8_FinalVerification

SpecBoot2 == InitBoot2 /\ [][NextBoot2]_vars

(***************************************************************************)
(* The report writers and the space of the caller's buffer                 *)
(***************************************************************************)
\* The sum of chunks[lo .. hi].
RECURSIVE SumLengths(_, _, _)
SumLengths(chunks, lo, hi) ==
    IF lo > hi THEN 0
    ELSE IF lo = hi THEN chunks[lo]
    ELSE SumLengths(chunks, lo, (lo + hi) \div 2)
         + SumLengths(chunks, ((lo + hi) \div 2) + 1, hi)

TextLength(chunks) == SumLengths(chunks, 1, Len(chunks))

\* The separator after entry i of n: ",\n" before the last, "\n" after it.
Separator(i, n) == IF i < n THEN 2 ELSE 1

\* export_report_json: the length of the text of each snprintf, in order, for
\* a report whose numbers print with digits characters, with measurements
\* measurements and events events whose descriptions have description
\* characters.
json_chunks(digits, measurements, events, description) ==
    LET measurement(i) ==
            <<30 + digits, 22>> \o [j \in 1 .. 32 |-> 2]
            \o <<23 + digits, Separator(i, measurements)>>
        event(i) == <<88 + 3 * digits + description, Separator(i, events)>>
        all_measurements == [k \in 1 .. 36 * measurements |->
                                measurement(((k - 1) \div 36) + 1)[((k - 1) % 36) + 1]]
        all_events == [k \in 1 .. 2 * events |->
                          event(((k - 1) \div 2) + 1)[((k - 1) % 2) + 1]]
    IN  <<2, 15 + digits, 18 + digits, 36, 35, 21 + digits, 14 + digits, 20>>
        \o all_measurements \o <<5, 14>> \o all_events \o <<5, 16>>
        \o [i \in 1 .. ATTESTATION_SIGNATURE_SIZE |-> 2] \o <<4>>

\* generate_attestation_report of the second implementation: the length of
\* the text of each snprintf for the measurements recorded.
report_chunks(measurements) ==
    <<2, 19, 18, 21>>
    \o [i \in DOMAIN measurements |->
           report_entries_length(<<measurements[i]>>)
           + (IF i < Len(measurements) THEN 1 ELSE 0)]
    \o <<5, 146, 2>>

\* What an snprintf does with a size above INT_MAX: ISO C stores the whole
\* text, POSIX libraries return -1 and store nothing.
SnprintfLibraries == {"iso", "posix"}

\* written = snprintf(buf, remaining, ..); buf += written; remaining -=
\* written, for a text of length characters. remaining is unsigned: a
\* negative value here stands for that value plus 2^32. stored is the number
\* of bytes from the start of the buffer that have been written.
snprintf_step(st, length, library) ==
    LET fails   == st.remaining < 0 /\ library = "posix"
        written == IF fails THEN 0 - 1 ELSE length
        bytes   == IF fails \/ st.remaining = 0 THEN 0
                   ELSE IF st.remaining < 0 THEN length + 1
                   ELSE Min(length + 1, st.remaining)
    IN [offset    |-> st.offset + written,
        remaining |-> st.remaining - written,
        stored    |-> IF bytes > 0 THEN Max(st.stored, st.offset + bytes)
                      ELSE st.stored]

\* The snprintf calls of a writer for its chunks, one after the other,
\* starting at the first byte of a buffer of buffer_size bytes.
snprintf_all(chunks, buffer_size, library) ==
    LET run[lo \in Nat, hi \in Nat,
            st \in [offset : Int, remaining : Int, stored : Int]] ==
            IF lo > hi THEN st
            ELSE IF lo = hi THEN snprintf_step(st, chunks[lo], library)
            ELSE run[((lo + hi) \div 2) + 1, hi, run[lo, (lo + hi) \div 2, st]]
    IN run[1, Len(chunks), [offset |-> 0, remaining |-> buffer_size, stored |-> 0]]

\* export_report_json(report, json_buffer, buffer_size): bytes stored and the
\* value returned, buffer_size - remaining.
export_report_json_into(chunks, buffer_size, library) ==
    IF buffer_size = 0 THEN [stored |-> 0, count |-> 0]
    ELSE LET r == snprintf_all(chunks, buffer_size, library)
         IN [stored |-> r.stored, count |-> buffer_size - r.remaining]

\* export_report_cbor(report, cbor_buffer, buffer_size): the bytes of the map
\* are stored one after the other; offset is returned.
export_report_cbor_into(bytes, buffer_size) ==
    IF buffer_size = 0 THEN [stored |-> 0, count |-> 0]
    ELSE [stored |-> Len(bytes), count |-> Len(bytes)]

\* generate_attestation_report(buffer, buffer_size) of the second
\* implementation: offset += snprintf(buffer + offset, buffer_size - offset, ..).
generate_attestation_report_into(chunks, buffer_size, library) ==
    IF buffer_size < ATTESTATION_BUFFER_SIZE THEN [stored |-> 0, count |-> 0]
    ELSE LET r == snprintf_all(chunks, buffer_size, library)
         IN [stored |-> r.stored, count |-> r.offset]

\* Buffer sizes the callers pass.
JsonBufferSizes   == {0, 1, 64, 4096}
CborBufferSizes   == {0, 1, 15, 16, 4096}
ReportBufferSizes == {2047, 2048, 4096}

\* Reports by the number of entries of their logs, the digits of their
\* numbers and the length of their texts.
ReportShapes ==
    [digits : {1, 10}, measurements : {0, 1, MAX_MEASUREMENT_COUNT},
     events : {0, 1, MAX_EVENT_LOG_ENTRIES}, description : {0, 63},
     stage : {"bootloader", "rtsl", "secure_vault"}]

ExFrame ==
    UNCHANGED <<vtVars, arVars, b1Vars, b2Vars, fsVars, kfVars, tmVars, trVars,
                atVars, drvVars, gfVars, cteVars, bcVars, cfVars>>

\* The logs are filled: the report the next writer call is given.
FillLogs ==
    /\ \E report \in ReportShapes : ex_call' = [NoExCall EXCEPT !.report = report]
    /\ ExFrame

ExportReportJsonInto ==
    /\ ex_call.report \in ReportShapes
    /\ \E buffer_size \in JsonBufferSizes, library \in SnprintfLibraries :
          LET chunks == json_chunks(ex_call.report.digits, ex_call.report.measurements,
                                    ex_call.report.events, ex_call.report.description)
              r == export_report_json_into(chunks, buffer_size, library)
          IN ex_call' = [op |-> "export_report_json", buffer_size |-> buffer_size,
                         length |-> TextLength(chunks), stored |-> r.stored,
                         count |-> r.count, report |-> ex_call.report]
    /\ ExFrame

ExportReportCborInto ==
    /\ ex_call.report \in ReportShapes
    /\ \E buffer_size \in CborBufferSizes, boot_count \in 0 .. MaxBootCount :
          LET bytes == export_report_cbor([ZeroReport EXCEPT !.version = 1,
                                                             !.boot_count = boot_count])
              r == export_report_cbor_into(bytes, buffer_size)
          IN ex_call' = [op |-> "export_report_cbor", buffer_size |-> buffer_size,
                         length |-> Len(bytes), stored |-> r.stored,
                         count |-> r.count, report |-> ex_call.report]
    /\ ExFrame

GenerateAttestationReportInto ==
    /\ ex_call.report \in ReportShapes
    /\ \E buffer_size \in ReportBufferSizes, library \in SnprintfLibraries :
          LET chunks == report_chunks([i \in 1 .. ex_call.report.measurements |->
                                          ex_call.report.stage])
              r == generate_attestation_report_into(chunks, buffer_size, library)
          IN ex_call' = [op |-> "generate_attestation_report",
                         buffer_size |-> buffer_size,
                         length |-> TextLength(chunks), stored |-> r.stored,
                         count |-> r.count, report |-> ex_call.report]
    /\ ExFrame

NextExport ==
    \/ FillLogs
    \/ ExportReportJsonInto
    \/ ExportReportCborInto
    \/ GenerateAttestationReportInto

(***************************************************************************)
(* control_flow_check called on its own                                    *)
(***************************************************************************)
\* control_flow_check that answers a mismatch without the tamper response.
control_flow_check_run_silent(token, expected) ==
    [ret |-> IF token = expected THEN BOOT_STATUS_SUCCESS_V2
             ELSE BOOT_STATUS_ERROR_GLITCH,
     handled |-> FALSE, events |-> TAMPER_NONE]

\* control_flow_check(token, expected) statement by statement: the value
\* returned, and whether handle_tamper_event was called and with which events.
control_flow_check_run(token, expected) ==
    LET check1 == token = expected
        check2 == token = expected
        check3 == token = expected
        glitch == [ret |-> BOOT_STATUS_ERROR_GLITCH, handled |-> TRUE,
                   events |-> {"TAMPER_GLITCH_DETECTED"}]
    IN  IF ~(check1 /\ check2 /\ check3) THEN glitch
        ELSE IF token # expected \/ ~check1 \/ ~check2 \/ ~check3 THEN glitch
        ELSE [ret |-> BOOT_STATUS_SUCCESS_V2, handled |-> FALSE, events |-> TAMPER_NONE]

\* Tokens and expected values a caller can pass: the stage tokens, the
\* cleared token, and stage tokens with one bit changed.
ControlFlowTokens ==
    {CF_TOKEN_INIT, CF_TOKEN_RTSL_VERIFIED, CF_TOKEN_TAMPER_OK, CF_TOKEN_ROLLBACK_OK,
     CF_TOKEN_SIGNATURE_OK, CF_TOKEN_BOOT_COMPLETE, W(0, 0), W(65535, 65535),
     W(42405, 42404), W(23131, 23130), W(50115, 17347)}

ControlFlowCheck ==
    /\ \E token \in ControlFlowTokens, expected \in ControlFlowTokens :
          LET r == control_flow_check_run(token, expected)
              hwr == IF r.handled THEN handle_tamper_event(NominalHw, r.events)
                     ELSE NominalHw
          IN cf_call' = [token |-> token, expected |-> expected, ret |-> r.ret,
                         handled |-> r.handled, events |-> r.events,
                         actions |-> IF r.handled THEN tamper_action(r.events) ELSE {},
                         keys_erased |-> hwr.KEYS_ERASED]
    /\ UNCHANGED <<vtVars, arVars, b1Vars, b2Vars, fsVars, kfVars, tmVars, trVars,
                   atVars, drvVars, gfVars, cteVars, bcVars, exVars>>

NextControlFlow == ControlFlowCheck

\* Boot attempts the model follows.
MaxBoots == 2

\* The device is reset after a boot attempt has ended (application running or
\* main spinning in while (1)): the boot counts of the attempt are noted, and
\* every static returns to the value the image loads it with.
PowerCycle ==
    /\ b1_pc \in {"application", "halt"}
    /\ Len(bc_history) < MaxBoots
    /\ bc_history' = Append(bc_history,
                            [context |-> g_boot_context.boot_count,
                             report  |-> g_attestation_report.boot_count,
                             success |-> b1_boot_status = BOOT_STATUS_SUCCESS])
    /\ verification_tokens' = [i \in 1..4 |-> W(0, 0)]
    /\ vt_pc' = "idle"
    /\ vt_ret' = NoWord
    /\ g_anti_rollback_initialized' = FALSE
    /\ g_otp_version' = ZeroVersion
    /\ g_otp_counters' = [i \in 0..(MAX_OTP_COUNTERS - 1) |-> 0]
    /\ ar_op' = "none"
    /\ ar_arg' = NULL
    /\ ar_ret' = FALSE
    /\ ar_prev' = ZeroVersion
    /\ ar_prev_init' = FALSE
    /\ b1_pc' = "start"
    /\ b1_boot_status' = NoWord
    /\ b1_results' = NoResults
    /\ g_boot_context' = [status |-> W(0, 0), boot_count |-> 0]
    /\ g_tz_initialized' = FALSE
    /\ g_puf_config' = [initialized |-> FALSE, enrollment_done |-> 0]
    /\ g_attestation_report' = [initialized |-> FALSE, boot_count |-> 0,
                                measurement_count |-> 0, event_count |-> 0,
                                last_event_data |-> NoWord]
    /\ b1_report' = [generated |-> FALSE, signed |-> FALSE, json_len |-> 0]
    /\ g_tamper_context' = ZeroTamperContext
    /\ g_tamper_config' = [low_threshold |-> 0, high_threshold |-> 0,
                           temp_low_threshold |-> W(0, 0),
                           temp_high_threshold |-> W(0, 0)]
    /\ b1_tamper' = [ctx |-> ZeroTamperContext, events |-> TAMPER_EVENT_NONE]
    /\ UNCHANGED <<b2Vars, fsVars, kfVars, tmVars, trVars, atVars, drvVars, gfVars,
                   cteVars, ext7Vars>>

\* The first boot sequence, attempt after attempt.
NextReboot ==
    \/ NextBoot1
    \/ PowerCycle

SpecReboot == InitBoot1 /\ [][NextReboot]_vars

\* control_flow_check on every pair of token and expected value.
SpecControlFlow == InitStore /\ [][NextControlFlow]_vars

\* The report writers on buffers of every size.
SpecExport == InitStore /\ [][NextExport]_vars

\* The second boot with the final poll of main executed statement by
\* statement, so that the interrupt handlers run between its statements.
InitTamperRace ==
    IdleTokens /\ InitRollback /\ InitBoot1State
    /\ InitBoot2State({[NominalHw EXCEPT !.OTP_COUNTER = c] : c \in {W(0, 0), W(0, 1)}})
    /\ InitExt

NextTamperRace ==
    \/ EnvVoltage
    \/ EnvGlitch
    \/ EnvTemperature
    \/ ACMP_IRQHandler
    \/ IADC_IRQHandler
    \/ SBI_Begin
    \/ SBI_TrngPufInit
    \/ SBI_TamperOtpAttestationInit
    \/ SBI_VerifyRootOfTrust
    \/ SBI_CheckTamperEvents
    \/ SBI_EnableTamperMonitoring
    \/ Main_Stage2_VerifyRootOfTrust
    \/ Main_Stage4_VerifyNoRollback
    \/ Main_Stage4_OtpIncrementCounter
    \/ Main_Stage5_ControlFlowCheck
    \/ Main_Stage7_GenerateAttestationReport
    \/ Stage8_SampleEvents
    \/ Stage8_LoadTamperEvents
    \/ Stage8_StoreTamperEvents

SpecTamperRace == InitTamperRace /\ [][NextTamperRace]_vars

\* The boot of the second implementation on a processor that keeps executing:
\* while secure_boot_init has a next step, the step is taken.
SecureBootInitStep ==
    \/ SBI_Begin
    \/ SBI_TrngPufInit
    \/ SBI_TamperOtpAttestationInit
    \/ SBI_VerifyRootOfTrust
    \/ SBI_CheckTamperEvents
    \/ SBI_EnableTamperMonitoring

SpecBoot2Live == SpecBoot2 /\ WF_vars(SecureBootInitStep)

\* verify_firmware_signature over the headers and images of a flash.
InitSignature ==
    IdleBoots /\ InitSignatureState(FlashHeaders, FlashImages) /\ InitKeyFabricState
    /\ InitExt2

NextSignature ==
    \/ CallVerifyFirmwareSignature
    \/ ReadFirmwareHeader

SpecSignature == InitSignature /\ [][NextSignature]_vars

\* The key fabric called in any order, with a stored wrapped key exposed to
\* single bit flips.
InitKeyFabric == IdleBoots /\ InitExt

NextKeyFabric ==
    \/ PufInit
    \/ PufEnroll
    \/ PufReconstructKey
    \/ PufDeriveKey
    \/ PufWrapKey
    \/ FlipBit
    \/ PufUnwrapKey

SpecKeyFabric == InitKeyFabric /\ [][NextKeyFabric]_vars

\* Tamper detection of the first implementation under any samples.
InitTamper1 == IdleBoots /\ InitExt

NextTamper1 == TamperDetectionStart \/ CheckTamperEvents

SpecTamper1 == InitTamper1 /\ [][NextTamper1]_vars

\* Tamper responses under any masks, one interrupt deep.
InitResponse == IdleBoots /\ InitExt

NextResponse ==
    \/ HTE_Enter
    \/ HTE_EraseKeys
    \/ HTE_Lock
    \/ HTE_Reset
    \/ SystemReset
    \/ HTE_AfterReset
    \/ ResponseReturn
    \/ ExecuteTamperResponse

SpecResponse == InitResponse /\ [][NextResponse]_vars

\* The measurement and event logs under any sequence of appends.
InitAttestLog == IdleBoots /\ InitExt

NextAttestLog ==
    \/ AttestationInit
    \/ AddBootMeasurement
    \/ AddEventLogEntry
    \/ AttestationInit2
    \/ RecordMeasurement

SpecAttestLog == InitAttestLog /\ [][NextAttestLog]_vars

\* Reports of the first implementation: made, signed and exported at any time.
InitAttest1 == IdleBoots /\ InitExt

NextAttest1 ==
    \/ AttestationInit
    \/ AddBootMeasurementSome
    \/ AddEventLogEntrySome
    \/ GenerateAttestationReport
    \/ SignAttestationReport
    \/ ExportReportJson
    \/ ExportReportCbor

SpecAttest1 == InitAttest1 /\ [][NextAttest1]_vars

\* Reports of the second implementation: measured, generated, altered on the
\* way and verified.
InitAttest2 == IdleBoots /\ InitExt

NextAttest2 ==
    \/ AttestationInit2
    \/ RecordMeasurementSome
    \/ GenerateAttestationReport2
    \/ AlterMeasurementText
    \/ AlterSignatureText
    \/ VerifyAttestation

SpecAttest2 == InitAttest2 /\ [][NextAttest2]_vars

\* The drivers called in any order on a device whose ledger is not locked yet.
OtpHw == {[NominalHw EXCEPT !.OTP_COUNTER = c] : c \in OtpValues}

InitDrivers ==
    /\ IdleTokens /\ InitRollback /\ InitBoot1State /\ InitBoot2State(OtpHw)
    /\ InitExt

NextDrivers ==
    \/ OtpWrite
    \/ OtpCounterInit
    \/ OtpIncrementCounter
    \/ VerifyNoRollback
    \/ OtpLockCounter
    \/ TrngGenerate
    \/ PufDeriveKey2

SpecDrivers == InitDrivers /\ [][NextDrivers]_vars

(***************************************************************************)
(* Properties                                                              *)
(***************************************************************************)
AllTokensCorrect ==
    /\ verification_tokens[1] = TOKEN_LAYER_1
    /\ verification_tokens[2] = TOKEN_LAYER_2
    /\ verification_tokens[3] = TOKEN_LAYER_3
    /\ verification_tokens[4] = TOKEN_LAYER_4

CorruptedSlots ==
    {i \in 1..4 : verification_tokens[i] #
        (CASE i = 1 -> TOKEN_LAYER_1 [] i = 2 -> TOKEN_LAYER_2
           [] i = 3 -> TOKEN_LAYER_3 [] OTHER -> TOKEN_LAYER_4)}

\* C1: for every assignment of the four tokens, verify_layered_tokens returns
\* TOKEN_STATE_ALL_VALID iff all four tokens have their expected values, and
\* TOKEN_STATE_INVALID as soon as a token is corrupted.
C1_LayeredTokens ==
    vt_pc = "returned" =>
        /\ (vt_ret = TOKEN_STATE_ALL_VALID) <=> AllTokensCorrect
        /\ CorruptedSlots # {} => vt_ret = TOKEN_STATE_INVALID

\* C1 witness: a context with exactly one corrupted token was verified.
C1_Witness ==
    /\ vt_pc = "returned"
    /\ Cardinality(CorruptedSlots) = 1
    /\ vt_ret = TOKEN_STATE_INVALID

\* Lexicographic (major, minor, patch) order.
VLess(a, b) ==
    \/ a.major < b.major
    \/ a.major = b.major /\ a.minor < b.minor
    \/ a.major = b.major /\ a.minor = b.minor /\ a.patch < b.patch

VLeq(a, b) == a = b \/ VLess(a, b)

\* C5: on an initialised store, check_version_rollback(v) is ROLLBACK_CHECK_FAIL
\* iff v < stored, ROLLBACK_VERSION_EQUAL when v = stored, and
\* ROLLBACK_VERSION_HIGHER when v > stored.
C5_CheckVersion ==
    (ar_op = "check_version_rollback" /\ ar_prev_init /\ ar_arg # NULL) =>
        /\ (ar_ret = ROLLBACK_CHECK_FAIL) <=> VLess(ar_arg, ar_prev)
        /\ ar_arg = ar_prev => ar_ret = ROLLBACK_VERSION_EQUAL
        /\ VLess(ar_prev, ar_arg) => ar_ret = ROLLBACK_VERSION_HIGHER

\* C5 witness: a candidate with a higher minor but a lower major version than
\* the stored one was checked and failed.
C5_Witness ==
    /\ ar_op = "check_version_rollback"
    /\ ar_prev_init
    /\ ar_arg # NULL
    /\ ar_arg.major < ar_prev.major
    /\ ar_arg.minor > ar_prev.minor
    /\ ar_ret = ROLLBACK_CHECK_FAIL

\* C6: over any sequence of store operations the stored OTP version never
\* decreases in lexicographic order.
C6_StoredMonotonic == [][VLeq(g_otp_version, g_otp_version')]_vars

\* C6 witness: a write was accepted and moved the stored version.
C6_Witness ==
    /\ ar_op = "write_otp_version"
    /\ ar_ret = TRUE
    /\ VLess(ar_prev, g_otp_version)
    /\ VLess(InitialOtpVersion, ar_prev)

\* C7: when check_version_rollback gives ROLLBACK_VERSION_HIGHER for a
\* candidate, write_otp_version(candidate) succeeds and the stored version is
\* then the candidate, strictly above the old one.
C7_CommitHigher ==
    (/\ ar_op = "write_otp_version"
     /\ check_version_rollback(ar_prev_init, ar_prev, ar_arg) = ROLLBACK_VERSION_HIGHER) =>
        /\ ar_ret = TRUE
        /\ g_otp_version = ar_arg
        /\ VLess(ar_prev, g_otp_version)

\* C7 witness: a higher candidate whose minor version is below the stored
\* minor version was committed.
C7_Witness ==
    /\ ar_op = "write_otp_version"
    /\ ar_arg # NULL
    /\ ar_arg.major > ar_prev.major
    /\ ar_arg.minor < ar_prev.minor
    /\ ar_ret = TRUE
    /\ g_otp_version = ar_arg

\* C8 as stated: when check_version_rollback gives ROLLBACK_VERSION_EQUAL,
\* write_otp_version(candidate) reports success and leaves the stored version
\* unchanged, however often it is repeated.
C8_CommitEqualAccepted ==
    (/\ ar_op = "write_otp_version"
     /\ check_version_rollback(ar_prev_init, ar_prev, ar_arg) = ROLLBACK_VERSION_EQUAL) =>
        /\ ar_ret = TRUE
        /\ g_otp_version = ar_prev

\* C8 amended: when check_version_rollback gives ROLLBACK_VERSION_EQUAL,
\* write_otp_version(candidate) is rejected (returns false) and leaves the
\* stored version unchanged, however often it is repeated.
C8_CommitEqualRejected ==
    (/\ ar_op = "write_otp_version"
     /\ check_version_rollback(ar_prev_init, ar_prev, ar_arg) = ROLLBACK_VERSION_EQUAL) =>
        /\ ar_ret = FALSE
        /\ g_otp_version = ar_prev

\* C8 witness: the stored version, above its initial value, was written again.
C8_Witness ==
    /\ ar_op = "write_otp_version"
    /\ ar_prev_init
    /\ ar_arg = ar_prev
    /\ VLess(InitialOtpVersion, ar_prev)
    /\ ar_ret = FALSE
    /\ g_otp_version = ar_prev

\* execute_secure_boot has returned to main.
Boot1Returned == b1_boot_status # NoWord

\* main has reached one of its two ends.
Boot1Ended == b1_pc \in {"application", "halt"}

\* C2: on a fresh device (stored version 1.0.0) with the four correct tokens,
\* the valid header built by execute_secure_boot (version 1.0.0) and no sensor
\* anomaly, execute_secure_boot returns BOOT_STATUS_SUCCESS and main then
\* generates and signs an attestation report.
C2_ScenarioA ==
    (/\ Boot1Returned
     /\ AllTokensCorrect
     /\ verify_firmware_signature(fw_header) = TOKEN_STATE_ALL_VALID
     /\ unpack_version(fw_header.version) = InitialOtpVersion
     /\ g_otp_version = InitialOtpVersion) =>
        /\ b1_boot_status = BOOT_STATUS_SUCCESS
        /\ Boot1Ended => (b1_report.generated /\ b1_report.signed)

\* C3: whenever the candidate version is lexicographically lower than the
\* stored version, the boot attempt ends failed with the reason Rollback and
\* no attestation report has been generated.
C3_ScenarioB ==
    (/\ Boot1Returned
     /\ AllTokensCorrect
     /\ VLess(unpack_version(fw_header.version), g_otp_version)) =>
        /\ b1_boot_status = BOOT_STATUS_ERROR_ROLLBACK
        /\ ~b1_report.generated

\* C4: whenever two consecutive voltage samples of the sequencer or of the
\* interrupt handlers differ by more than the 200 mV glitch threshold (250 mV
\* here), whatever stage has been reached and whether or not monitoring is
\* enabled, the boot attempt ends at once by a forced reset with the glitch
\* event recorded, and it never reaches Success.
C4_ScenarioC ==
    b2_hist.delta_seen =>
        /\ b2_pc = "reset"
        /\ "TAMPER_GLITCH_DETECTED" \in g_tamper_events

\* s occurs in t as a subsequence (in order, gaps allowed).
RECURSIVE IsSubSeq(_, _)
IsSubSeq(s, t) ==
    IF s = <<>> THEN TRUE
    ELSE IF t = <<>> THEN FALSE
    ELSE IF Head(s) = Head(t) THEN IsSubSeq(Tail(s), Tail(t))
    ELSE IsSubSeq(s, Tail(t))

RequiredOrder ==
    <<"RootOfTrust", "TamperClear", "RollbackClear", "SignatureValid",
      "AttestationReady">>

\* C9: a boot that reaches Success has passed, in this order and with none
\* skipped, the root of trust check, the tamper check, the rollback check, the
\* firmware signature check and the attestation stage.
C9_RequiredOrder ==
    b2_pc = "success" => IsSubSeq(RequiredOrder, b2_hist.stages)

\* C10: once an interrupt handler has detected a tamper event (voltage,
\* temperature or glitch), the boot attempt never reports Success, even when
\* the anomaly is gone at the final poll of the sequencer.
C10_InterruptTamperFails ==
    b2_hist.irq_events # {} => b2_pc # "success"

\* A check of execute_secure_boot has run and did not return ALL_VALID.
CheckFailed(result) == result # NoWord /\ result # TOKEN_STATE_ALL_VALID

\* C11: execute_secure_boot returns BOOT_STATUS_SUCCESS only when the token,
\* signature and anti-rollback checks of that call each returned
\* TOKEN_STATE_ALL_VALID; once one of them has failed no later check is run,
\* the context status and the returned status are BOOT_STATUS_FAILURE, and
\* they stay so for the rest of the boot attempt.
C11_FailClosed ==
    /\ (b1_boot_status = BOOT_STATUS_SUCCESS
         \/ g_boot_context.status = BOOT_STATUS_SUCCESS) =>
            /\ b1_results.token_result = TOKEN_STATE_ALL_VALID
            /\ b1_results.signature_result = TOKEN_STATE_ALL_VALID
            /\ b1_results.rollback_result = TOKEN_STATE_ALL_VALID
    /\ CheckFailed(b1_results.token_result) =>
            /\ b1_results.signature_result = NoWord
            /\ b1_results.rollback_result = NoWord
    /\ CheckFailed(b1_results.signature_result) =>
            b1_results.rollback_result = NoWord
    /\ (\/ CheckFailed(b1_results.token_result)
         \/ CheckFailed(b1_results.signature_result)
         \/ CheckFailed(b1_results.rollback_result)) =>
            /\ g_boot_context.status = BOOT_STATUS_FAILURE
            /\ b1_boot_status = BOOT_STATUS_FAILURE

\* The token check failed and main has run to its end.
C11_Witness ==
    /\ Boot1Ended
    /\ CheckFailed(b1_results.token_result)
    /\ b1_boot_status = BOOT_STATUS_FAILURE

\* The ECDSA signature of a header verifies over an image: it is the
\* signature made for that image.
SignatureVerifies(header, image) == header.signature = image

\* C12: for every header whose signature does not verify over the image,
\* verify_firmware_signature does not return TOKEN_STATE_ALL_VALID, whatever
\* the magic and image_size fields hold.
C12_InvalidSignatureRejected ==
    (fs_ret # NoWord /\ ~SignatureVerifies(fs_header, fs_image)) =>
        fs_ret # TOKEN_STATE_ALL_VALID

\* C13: after puf_init and puf_enroll, puf_wrap_key succeeds for every
\* plaintext key of 1 to 32 bytes and every key type, and puf_unwrap_key on
\* the wrapped key it produced succeeds and returns exactly that plaintext.
C13_WrapRoundTrip ==
    /\ (/\ kf_call.op = "puf_wrap_key"
         /\ Enrolled
         /\ kf_plain.size \in 1 .. PUF_KEY_SIZE) => kf_call.ret
    /\ (/\ kf_call.op = "puf_unwrap_key"
         /\ Enrolled
         /\ Untampered) =>
            /\ kf_call.ret
            /\ kf_call.out = kf_plain.key

\* A 32-byte key of type KEY_TYPE_STORAGE has been wrapped and unwrapped.
C13_Witness ==
    /\ kf_call.op = "puf_unwrap_key"
    /\ Untampered
    /\ kf_plain.size = PUF_KEY_SIZE
    /\ kf_wrapped.key_type = 4
    /\ kf_call.ret
    /\ kf_call.out = kf_plain.key

\* C14: for every wrapped key made by puf_wrap_key and every single bit
\* flipped in its ciphertext bytes or its tag, puf_unwrap_key returns failure
\* and leaves only zero bytes in the output buffer.
C14_BitFlipRejected ==
    (kf_call.op = "puf_unwrap_key" /\ kf_flip # NoFlip) =>
        /\ ~kf_call.ret
        /\ kf_call.out = Zeros(kf_plain.size)

\* A buffer holds no key material: never written, or all zero.
Clean(buffer) == \A i \in DOMAIN buffer : buffer[i] = 0

\* C15: when puf_reconstruct_key, puf_derive_key, puf_wrap_key or
\* puf_unwrap_key has returned, on success or on an error path, every working
\* buffer that held the device secret or a derived wrapping key during the
\* call (the static g_puf_key, the locals base_key and wrapping_key) is zero.
C15_BuffersZeroized ==
    kf_call.op \in {"puf_reconstruct_key", "puf_derive_key", "puf_wrap_key",
                    "puf_unwrap_key"} =>
        /\ Clean(g_puf_key)
        /\ Clean(kf_stack.base_key)
        /\ Clean(kf_stack.wrapping_key)

\* C16: for a fixed enrolled helper-data blob, every successful call of
\* puf_reconstruct_key returns the bytes the first one returned, whatever key
\* fabric operations ran in between.
C16_ReconstructionDeterministic ==
    (kf_call.op = "puf_reconstruct_key" /\ kf_call.ret) =>
        kf_call.out = kf_reconstructed.first

\* A second reconstruction, after a reconstruction and a wrap.
C16_Witness ==
    /\ kf_call.op = "puf_reconstruct_key"
    /\ kf_call.ret
    /\ kf_reconstructed.calls = 2
    /\ reconstruction_count = 3
    /\ kf_wrapped # NoWrapped

\* The number of event bits set in a mask returned by check_tamper_events.
EventBits(events) ==
    LET Has(e) == IF (events \div e) % 2 = 1 THEN 1 ELSE 0
    IN Has(TAMPER_EVENT_VOLTAGE_LOW) + Has(TAMPER_EVENT_VOLTAGE_HIGH)
       + Has(TAMPER_EVENT_TEMP_LOW) + Has(TAMPER_EVENT_TEMP_HIGH)
       + Has(TAMPER_EVENT_GLITCH) + Has(TAMPER_EVENT_CLOCK_ANOMALY)

HasEvent(events, e) == (events \div e) % 2 = 1

\* The distance between a sample and the sample before it.
VoltageStep(call) ==
    IF call.v >= call.prev.last_voltage_mv THEN call.v - call.prev.last_voltage_mv
    ELSE call.prev.last_voltage_mv - call.v

\* C17: for every voltage sample v and previous sample v_prev, the mask
\* check_tamper_events returns holds VOLTAGE_LOW exactly when v is below the
\* low threshold, VOLTAGE_HIGH exactly when v is above the high threshold,
\* and GLITCH whenever |v - v_prev| exceeds 200 mV, whether or not v is in
\* range; the cumulative event count grows by one for each bit set.
C17_TamperClassification ==
    tm_call.op = "check_tamper_events" =>
        /\ HasEvent(tm_call.ret, TAMPER_EVENT_VOLTAGE_LOW)
              <=> tm_call.v < g_tamper_config.low_threshold
        /\ HasEvent(tm_call.ret, TAMPER_EVENT_VOLTAGE_HIGH)
              <=> tm_call.v > g_tamper_config.high_threshold
        /\ VoltageStep(tm_call) > GLITCH_DELTA_MV
              => HasEvent(tm_call.ret, TAMPER_EVENT_GLITCH)
        /\ g_tamper_context.event_count
              = tm_call.prev.event_count + EventBits(tm_call.ret)

\* A sample inside 2700..3600 mV, more than 200 mV from the one before it,
\* reported as a glitch and counted.
C17_Witness ==
    /\ tm_call.op = "check_tamper_events"
    /\ g_tamper_config.low_threshold = VOLTAGE_THRESHOLD_LOW_MV
    /\ tm_call.v > g_tamper_config.low_threshold
    /\ tm_call.v < g_tamper_config.high_threshold
    /\ VoltageStep(tm_call) > GLITCH_DELTA_MV
    /\ HasEvent(tm_call.ret, TAMPER_EVENT_GLITCH)
    /\ ~HasEvent(tm_call.ret, TAMPER_EVENT_VOLTAGE_LOW)
    /\ g_tamper_context.event_count > tm_call.prev.event_count

\* C18: after tamper_detection_start, a check that samples the nominal
\* 3300 mV and 25 degrees C (the sample before it being nominal too) returns
\* TAMPER_EVENT_NONE and sets no event flag.
C18_NominalNoEvent ==
    (/\ tm_call.op = "check_tamper_events"
     /\ g_tamper_config.low_threshold = VOLTAGE_THRESHOLD_LOW_MV
     /\ g_tamper_config.high_threshold = VOLTAGE_THRESHOLD_HIGH_MV
     /\ tm_call.v = VOLTAGE_NOMINAL_MV
     /\ tm_call.t = TEMP_NOMINAL_C
     /\ tm_call.prev.last_voltage_mv = VOLTAGE_NOMINAL_MV) =>
        /\ tm_call.ret = TAMPER_EVENT_NONE
        /\ g_tamper_context.event_flags = tm_call.prev.event_flags

\* What a response has performed, and when it is over.
Performed(frame) == {frame.log[k] : k \in DOMAIN frame.log}
Finished(frame) == frame.pc \in {"return", "reset_issued", "halted"}

HasVoltage(frame) ==
    frame.events \cap {"TAMPER_VOLTAGE_LOW", "TAMPER_VOLTAGE_HIGH",
                       "TAMPER_EVENT_VOLTAGE_LOW", "TAMPER_EVENT_VOLTAGE_HIGH"} # {}
HasGlitch(frame) ==
    frame.events \cap {"TAMPER_GLITCH_DETECTED", "TAMPER_EVENT_GLITCH"} # {}
OnlyTemp(frame) ==
    /\ frame.events # {}
    /\ frame.events \subseteq {"TAMPER_TEMP_LOW", "TAMPER_TEMP_HIGH",
                               "TAMPER_EVENT_TEMP_LOW", "TAMPER_EVENT_TEMP_HIGH"}

ResponsePolicy(frame) ==
    /\ HasVoltage(frame) => {"ERASE_KEYS", "LOCK"} \subseteq Performed(frame)
    /\ HasGlitch(frame) => {"ERASE_KEYS", "RESET"} \subseteq Performed(frame)
    /\ OnlyTemp(frame) => Performed(frame) = {"LOCK"}

\* handle_tamper_event alone follows the policy.
HandleTamperEventPolicy ==
    \A k \in DOMAIN tr_frames :
        (tr_frames[k].fn = "handle_tamper_event" /\ Finished(tr_frames[k]))
            => ResponsePolicy(tr_frames[k])

\* C19: for every event mask, the finished response has erased the keys and
\* set the lock if the mask holds VOLTAGE_LOW or VOLTAGE_HIGH, has erased the
\* keys and forced a reset if it holds GLITCH, and has only set the lock
\* (no erasure, no reset) if it holds nothing but TEMP_LOW / TEMP_HIGH.
C19_ResponsePolicy ==
    \A k \in DOMAIN tr_frames :
        Finished(tr_frames[k]) => ResponsePolicy(tr_frames[k])

\* C20: in every execution of the tamper response the actions happen in the
\* order erase-keys, lock, reset: no lock before the erasure selected for
\* that response has completed, no reset while it is pending.
C20_ResponseOrder ==
    \A k \in DOMAIN tr_frames :
        LET frame == tr_frames[k]
            erased == "ERASE_KEYS" \in frame.action =>
                          /\ "ERASE_KEYS" \in Performed(frame)
                          /\ frame.i = KEY_STORAGE_WORDS
                          /\ tr_hw.zeroed = KEY_STORAGE_WORDS
        IN /\ IsSubSeq(frame.log, <<"ERASE_KEYS", "LOCK", "RESET">>)
              \/ frame.fn # "handle_tamper_event"
           /\ "LOCK" \in Performed(frame) => erased
           /\ "RESET" \in Performed(frame) =>
                 /\ erased
                 /\ "LOCK" \in frame.action => "LOCK" \in Performed(frame)

\* A response to a voltage event with a glitch: all three actions, in order,
\* inside a response that an interrupt found in progress.
C20_Witness ==
    /\ Len(tr_frames) = 2
    /\ tr_frames[2].log = <<"ERASE_KEYS", "LOCK", "RESET">>
    /\ tr_frames[1].pc = "erase"
    /\ tr_frames[1].i > 0
    /\ tr_hw.reset = "done"

\* C21: the tamper response returns control to its caller if and only if the
\* event mask holds no GLITCH: with GLITCH the end of the response is never
\* reached, and a response to a mask without GLITCH ends by returning.
C21_ReturnsIffNoGlitch ==
    \A k \in DOMAIN tr_frames :
        LET frame == tr_frames[k]
        IN /\ frame.pc = "return" => ~HasGlitch(frame)
           /\ (Finished(frame) /\ ~HasGlitch(frame)) => frame.pc = "return"

\* handle_tamper_event about to return although its mask holds GLITCH.
GlitchResponseReturns ==
    \A k \in DOMAIN tr_frames :
        (tr_frames[k].fn = "handle_tamper_event" /\ tr_frames[k].pc = "return")
            => ~HasGlitch(tr_frames[k])

\* execute_tamper_response returns for every mask without GLITCH.
NoGlitchResponseReturns ==
    \A k \in DOMAIN tr_frames :
        (/\ tr_frames[k].fn = "execute_tamper_response"
         /\ ~HasGlitch(tr_frames[k])) => tr_frames[k].pc = "return"

\* C22: the tamper event mask is sticky: an event bit recorded in
\* g_tamper_events stays set during the rest of the boot attempt, under
\* every later poll, interrupt and tamper response.
C22_StickyMask == [][g_tamper_events \subseteq g_tamper_events']_vars

\* The GLITCH bit alone, once recorded, is kept.
GlitchBitKept ==
    []["TAMPER_GLITCH_DETECTED" \in g_tamper_events
          => "TAMPER_GLITCH_DETECTED" \in g_tamper_events']_vars

\* C23: the measurement log and the event log are bounded and never drop
\* silently: an append to a log that already holds its maximum (16
\* measurements, 32 events) returns failure and leaves the count and every
\* stored entry unchanged, and no count ever exceeds its capacity.
C23_BoundedLogs ==
    /\ [](/\ Len(at_report.measurements) <= MAX_MEASUREMENT_COUNT
          /\ Len(at_report.events) <= MAX_EVENT_LOG_ENTRIES
          /\ Len(g_measurements) <= MAX_MEASUREMENTS)
    /\ [][/\ (/\ at_call'.op = "add_boot_measurement"
              /\ Len(at_report.measurements) = MAX_MEASUREMENT_COUNT)
                 => (~at_call'.ret /\ at_report' = at_report)
          /\ (/\ at_call'.op = "add_event_log_entry"
              /\ Len(at_report.events) = MAX_EVENT_LOG_ENTRIES)
                 => (~at_call'.ret /\ at_report' = at_report)
          /\ (/\ at_call'.op = "record_measurement"
              /\ Len(g_measurements) = MAX_MEASUREMENTS)
                 => (~at_call'.ret /\ g_measurements' = g_measurements)
          \* and an append that returned success did append
          /\ (at_call'.op = "add_boot_measurement" /\ at_call'.ret)
                 => Len(at_report'.measurements) = Len(at_report.measurements) + 1
          /\ (at_call'.op = "add_event_log_entry" /\ at_call'.ret)
                 => Len(at_report'.events) = Len(at_report.events) + 1
          /\ (at_call'.op = "record_measurement" /\ at_call'.ret)
                 => Len(g_measurements') = Len(g_measurements) + 1]_vars

\* All three logs full and the last append refused.
C23_Witness ==
    /\ Len(at_report.measurements) = MAX_MEASUREMENT_COUNT
    /\ Len(at_report.events) = MAX_EVENT_LOG_ENTRIES
    /\ Len(g_measurements) = MAX_MEASUREMENTS
    /\ at_call.op = "add_event_log_entry"
    /\ ~at_call.ret

\* The root-of-trust (token) stage and the rollback stage of the current
\* boot attempt have succeeded, in either boot sequence.
StagesPassed ==
    \/ /\ b1_results.token_result = TOKEN_STATE_ALL_VALID
       /\ b1_results.rollback_result = TOKEN_STATE_ALL_VALID
    \/ /\ \E k \in DOMAIN b2_hist.stages : b2_hist.stages[k] = "RootOfTrust"
       /\ \E k \in DOMAIN b2_hist.stages : b2_hist.stages[k] = "RollbackClear"

\* C24: report generation fails whenever it is called before the
\* root-of-trust stage and the rollback stage of the current boot attempt
\* have both succeeded: no report is produced in such a state.
C24_ReportNeedsStages ==
    (at_call.op = "generate_attestation_report" /\ at_call.ret) => StagesPassed

\* C25: every report returned by a successful generate_attestation_report
\* carries the nonce supplied to that call (the zero bytes of a fresh report
\* when none was supplied), never the nonce of an earlier call.
C25_FreshNonce ==
    (at_call.op = "generate_attestation_report" /\ at_call.ret) =>
        at_out.report.nonce = (IF at_call.nonce = NullPtr THEN 0 ELSE at_call.nonce)

\* A nonce that is supplied is the one embedded.
SuppliedNonceEmbedded ==
    (/\ at_call.op = "generate_attestation_report"
     /\ at_call.ret
     /\ at_call.nonce # NullPtr) => at_out.report.nonce = at_call.nonce

\* The fields of a report, in the order of the exports; the key of a field in
\* the CBOR map is its position in this list.
ReportFields ==
    <<"version", "boot_count", "firmware_version", "security_status",
      "tamper_events", "uptime", "measurements", "events", "signature">>

\* Reading back what the exports wrote: a decimal number, eight hexadecimal
\* digits, and the pairs of a CBOR map of unsigned integers.
RECURSIVE Number(_)
Number(digits) ==
    IF digits = <<>> THEN 0
    ELSE Number(SubSeq(digits, 1, Len(digits) - 1)) * 10 + digits[Len(digits)]

HexWord(h) ==
    W(h[1] * 4096 + h[2] * 256 + h[3] * 16 + h[4],
      h[5] * 4096 + h[6] * 256 + h[7] * 16 + h[8])

RECURSIVE CborPairs(_)
CborPairs(bytes) ==
    IF Len(bytes) >= 3 /\ bytes[2] = 24
    THEN <<[key |-> bytes[1], value |-> W(0, bytes[3])]>>
         \o CborPairs(SubSeq(bytes, 4, Len(bytes)))
    ELSE IF Len(bytes) >= 6 /\ bytes[2] = 26
    THEN <<[key |-> bytes[1],
            value |-> W(bytes[3] * 256 + bytes[4], bytes[5] * 256 + bytes[6])]>>
         \o CborPairs(SubSeq(bytes, 7, Len(bytes)))
    ELSE <<>>

Absent == [present |-> FALSE, value |-> W(0, 0)]

\* The decoded value of field f of a JSON export: numbers and hexadecimal
\* words as 32-bit values, the other members as printed.
JsonField(json, f) ==
    IF \E k \in DOMAIN json : json[k].key = f
    THEN LET m == json[CHOOSE k \in DOMAIN json : json[k].key = f]
         IN [present |-> TRUE,
             value |-> CASE m.kind = "number" -> ToU32(Number(m.text))
                         [] m.kind = "hex" -> HexWord(m.text)
                         [] OTHER -> m.text]
    ELSE Absent

\* The decoded value of field f of a CBOR export.
CborField(cbor, f) ==
    LET pairs == IF cbor = <<>> THEN <<>> ELSE CborPairs(Tail(cbor))
        key == CHOOSE k \in DOMAIN ReportFields : ReportFields[k] = f
    IN IF \E k \in DOMAIN pairs : pairs[k].key = key
       THEN [present |-> TRUE,
             value |-> pairs[CHOOSE k \in DOMAIN pairs : pairs[k].key = key].value]
       ELSE Absent

SameField(a, b) == a.present = b.present /\ (a.present => a.value = b.value)

\* C26: decoding the JSON export and the CBOR export of one report yields
\* the same value for every field: version, boot_count, firmware_version,
\* security_status, tamper_events, uptime, measurements, events, signature.
C26_ExportsAgree ==
    (at_call.op = "export_report_cbor" /\ at_call.ret) =>
        \A k \in DOMAIN ReportFields :
            SameField(JsonField(export_report_json(at_out.report), ReportFields[k]),
                      CborField(at_out.cbor, ReportFields[k]))

\* The three fields the CBOR export does write decode to the JSON values.
WrittenFieldsAgree ==
    (at_call.op = "export_report_cbor" /\ at_call.ret) =>
        \A k \in 1 .. 3 :
            SameField(JsonField(export_report_json(at_out.report), ReportFields[k]),
                      CborField(at_out.cbor, ReportFields[k]))

\* The signature in the text is the one computed over the entries the text
\* now holds.
SignatureValid(attestation) ==
    /\ attestation.signature
    /\ ~attestation.flipped
    /\ attestation.signed = attestation.entries

\* C27: verify_attestation returns true only if the signature in the text is
\* valid for the text's contents: after a measurement or the signature's text
\* was changed it returns false.
C27_VerifyChecksSignature ==
    (at_call.op = "verify_attestation" /\ at_call.ret) => SignatureValid(at_out.buffer)

\* An unaltered generated text is accepted, a text without a signature is not.
UnalteredAccepted ==
    at_call.op = "verify_attestation" =>
        /\ (at_out.buffer.len # 0 /\ SignatureValid(at_out.buffer)) => at_call.ret
        /\ ~at_out.buffer.signature => ~at_call.ret

\* C28: once the lock bit is set (otp_lock_counter succeeded), the ledger is
\* read-only: the counter never changes and the lock stays; otp_write,
\* otp_increment_counter, otp_lock_counter and a verify_no_rollback that has
\* to raise the counter all fail.
C28_LockedReadOnly ==
    [][hw.OTP_LOCKED =>
          /\ hw'.OTP_COUNTER = hw.OTP_COUNTER
          /\ hw'.OTP_LOCKED
          /\ drv_call'.op \in {"otp_write", "otp_increment_counter",
                               "otp_lock_counter"} => ~drv_call'.ret
          /\ (/\ drv_call'.op = "verify_no_rollback"
              /\ ULess(hw.OTP_COUNTER, drv_call'.arg)) => ~drv_call'.ret]_vars

\* A locked ledger refused a verify_no_rollback that needed to raise the
\* counter.
C28_Witness ==
    /\ hw.OTP_LOCKED
    /\ drv_call.op = "verify_no_rollback"
    /\ ULess(hw.OTP_COUNTER, drv_call.arg)
    /\ ~drv_call.ret

\* C29: trng_generate, puf_derive_key and otp_write return success only when
\* the hardware signalled ready within the retry budget; a ready flag that
\* never appears makes them return failure.
C29_StallIsFailure ==
    (/\ drv_call.op \in {"trng_generate", "puf_derive_key", "otp_write"}
     /\ drv_call.ret) => drv_call.ready_at # 0

\* secure_boot_init has returned a status to main.
InitReturned == b2_main.status # NoWord

C31_SingleFaultNoBypass ==
    (/\ vt_pc = "returned"
     /\ Cardinality(gf_glitched) = 1
     /\ CorruptedSlots # {}) => vt_ret = TOKEN_STATE_INVALID

\* One token was wrong, its layer comparison was inverted, and the call
\* still returned TOKEN_STATE_INVALID.
C31_Witness ==
    /\ vt_pc = "returned"
    /\ CorruptedSlots = {1}
    /\ gf_glitched = {1}
    /\ vt_ret = TOKEN_STATE_INVALID

\* C32: bypassing the layered check needs at least five corrupted points:
\* for every set of wrong tokens, no set of four or fewer inverted
\* comparisons makes verify_layered_tokens return TOKEN_STATE_ALL_VALID.
C32_FourFaultsNoBypass ==
    (/\ vt_pc = "returned"
     /\ Cardinality(gf_glitched) <= 4
     /\ CorruptedSlots # {}) => vt_ret # TOKEN_STATE_ALL_VALID

\* What the code does guarantee: two inverted comparisons for each wrong
\* token.
TwoFaultsPerWrongToken ==
    (vt_pc = "returned" /\ vt_ret = TOKEN_STATE_ALL_VALID) =>
        Cardinality(gf_glitched) >= 2 * Cardinality(CorruptedSlots)

\* C33: on an initialised store, check_anti_rollback(new_version) returns
\* TOKEN_STATE_ALL_VALID for every candidate equal to or higher than the
\* stored version and TOKEN_STATE_INVALID for every lower one.
C33_EqualOrHigherAccepted ==
    (ar_op = "check_anti_rollback" /\ ar_prev_init) =>
        ar_ret = (IF VLess(ar_arg, ar_prev) THEN TOKEN_STATE_INVALID
                  ELSE TOKEN_STATE_ALL_VALID)

\* What the code does: higher candidates pass, lower and equal ones do not.
OnlyHigherAccepted ==
    (ar_op = "check_anti_rollback" /\ ar_prev_init) =>
        ar_ret = (IF VLess(ar_prev, ar_arg) THEN TOKEN_STATE_ALL_VALID
                  ELSE TOKEN_STATE_INVALID)

\* The larger of two 32-bit words.
UMax(x, y) == IF ULess(x, y) THEN y ELSE x

\* C34: on an unlocked ledger whose OTP writes succeed,
\* verify_no_rollback(fw) returns false exactly when fw is lower than the
\* stored counter; when it returns true the counter equals
\* max(previous counter, fw); the counter never decreases.
C34_CounterLedger ==
    [][(/\ drv_call'.op = "verify_no_rollback"
        /\ drv_call'.all_ready
        /\ ~hw.OTP_LOCKED) =>
          /\ ~drv_call'.ret <=> ULess(drv_call'.arg, hw.OTP_COUNTER)
          /\ drv_call'.ret => hw'.OTP_COUNTER = UMax(hw.OTP_COUNTER, drv_call'.arg)
          /\ ~ULess(hw'.OTP_COUNTER, hw.OTP_COUNTER)]_vars

\* verify_no_rollback accepted a version and left the counter at 3, a value
\* only increments reach.
C34_Witness ==
    /\ drv_call.op = "verify_no_rollback"
    /\ drv_call.all_ready
    /\ drv_call.ret
    /\ ~hw.OTP_LOCKED
    /\ drv_call.arg = W(0, 3)
    /\ hw.OTP_COUNTER = W(0, 3)

\* A stage whose check passed in this boot attempt.
StagePassed(stage) == \E k \in DOMAIN b2_hist.stages : b2_hist.stages[k] = stage

TokenRank(token) ==
    CASE token = CF_TOKEN_INIT -> 1
      [] token = CF_TOKEN_RTSL_VERIFIED -> 2
      [] token = CF_TOKEN_TAMPER_OK -> 3
      [] token = CF_TOKEN_ROLLBACK_OK -> 4
      [] token = CF_TOKEN_SIGNATURE_OK -> 5
      [] token = CF_TOKEN_BOOT_COMPLETE -> 6
      [] OTHER -> 0

\* C36: within one boot attempt the control-flow token only moves forward
\* along INIT, RTSL_VERIFIED, TAMPER_OK, ROLLBACK_OK, SIGNATURE_OK,
\* BOOT_COMPLETE, and a boot that reports success ends at BOOT_COMPLETE.
C36_TokenProgression ==
    /\ [][TokenRank(g_control_flow_token') # 0 =>
             TokenRank(g_control_flow_token') >= TokenRank(g_control_flow_token)]_vars
    /\ [](b2_pc = "success" => g_control_flow_token = CF_TOKEN_BOOT_COMPLETE)

\* Inside secure_boot_init the token does move forward only.
ForwardInsideInit ==
    [][(b2_pc # "stage2" /\ TokenRank(g_control_flow_token') # 0) =>
          TokenRank(g_control_flow_token') >= TokenRank(g_control_flow_token)]_vars

\* C37: when an interrupt handler runs between the statements of main's
\* check_tamper_events, no event is lost: once main's call has returned and
\* no interrupt is pending, g_tamper_events holds every event main's poll
\* detected and every event the handlers detected during the call.
C37_NoLostEvent ==
    (cte_frame.returned /\ ~AcmpIrq /\ ~IadcIrq)
    => (cte_frame.events \cup (b2_hist.irq_events \ cte_frame.irq_before))
           \subseteq g_tamper_events

\* What the code does keep: the events of main's own poll are in the mask
\* when its call returns.
OwnEventsKept ==
    cte_frame.returned => cte_frame.events \subseteq g_tamper_events

\* C38: the boot counter is persistent and strictly increases: the
\* boot_count noted after the n-th boot attempt (of the boot context and of
\* the attestation report) is greater than the one noted after the attempt
\* before it.
C38_BootCountIncreases ==
    \A n \in 2 .. Len(bc_history) :
        /\ bc_history[n].context > bc_history[n - 1].context
        /\ bc_history[n].report > bc_history[n - 1].report

\* What the code does: every attempt that reaches secure_boot_init leaves the
\* context's count at 1, and the report's count is 1 after a successful
\* attempt and 0 after a failed one.
BootCountRestarts ==
    \A n \in 1 .. Len(bc_history) :
        /\ bc_history[n].context \in {0, 1}
        /\ bc_history[n].report = (IF bc_history[n].success THEN 1 ELSE 0)

\* C39: the report writers never write outside the caller's buffer: after
\* export_report_json, export_report_cbor or the JSON
\* generate_attestation_report, the bytes stored are at most buffer_size, and
\* so is the byte count the writer keeps and returns.
C39_WritesStayInside ==
    /\ ex_call.stored <= ex_call.buffer_size
    /\ ex_call.count <= ex_call.buffer_size

\* What the code does keep: when the text and its terminator fit into the
\* buffer, the writers store no byte outside it and return the text length.
FittingTextStaysInside ==
    (ex_call.op # "none" /\ ex_call.length < ex_call.buffer_size
     /\ (ex_call.op = "generate_attestation_report"
            => ex_call.buffer_size >= ATTESTATION_BUFFER_SIZE))
    => /\ ex_call.stored <= ex_call.buffer_size
       /\ ex_call.count = ex_call.length

\* C40: control_flow_check(token, expected) returns BOOT_STATUS_SUCCESS if
\* and only if token equals expected, and then calls no tamper response; on a
\* mismatch it calls handle_tamper_event with the glitch event, whose response
\* is key erasure and reset, and returns BOOT_STATUS_ERROR_GLITCH.
C40_ControlFlowCheck ==
    cf_call.token # NoWord
    => /\ (cf_call.ret = BOOT_STATUS_SUCCESS_V2) <=> (cf_call.token = cf_call.expected)
       /\ cf_call.ret = BOOT_STATUS_SUCCESS_V2
             => (~cf_call.handled /\ cf_call.actions = {} /\ ~cf_call.keys_erased)
       /\ cf_call.token # cf_call.expected
             => /\ cf_call.handled
                /\ cf_call.events = {"TAMPER_GLITCH_DETECTED"}
                /\ cf_call.actions = {"ERASE_KEYS", "RESET"}
                /\ cf_call.keys_erased
                /\ cf_call.ret = BOOT_STATUS_ERROR_GLITCH

\* A call with a token one bit away from the expected one has been answered
\* with the glitch response.
C40_Witness ==
    /\ cf_call.token = W(42405, 42404)
    /\ cf_call.expected = CF_TOKEN_INIT
    /\ cf_call.ret = BOOT_STATUS_ERROR_GLITCH
    /\ cf_call.keys_erased

====
